---- MODULE Spec2Model ----
(***************************************************************************)
(* Model of the tool-confirmation engine of agent-envoyou                  *)
(* (src/agent_envoyou/tools/tool_confirmation.py): the process-wide        *)
(* ToolConfirmationSystem registry, its request/response operations, the   *)
(* safety classifier and the convenience wrappers.                         *)
(*                                                                         *)
(* Python values are modelled as tagged records so that values of          *)
(* different Python types can be compared:  a str is a string, read as    *)
(* the sequence of its characters by Chars wherever the source looks       *)
(* inside it; a dict is a function from keys to values.  A call that       *)
(* raises is modelled by the value Raise in place of its result; the       *)
(* try/except blocks of the source decide where a Raise stops.             *)
(***************************************************************************)
EXTENDS Integers, Sequences, FiniteSets, TLC

VARIABLES pending_requests, response_handlers, confirmation_callbacks, last, state,
          respond_tasks, stored

vars == <<pending_requests, response_handlers, confirmation_callbacks, last, state,
          respond_tasks, stored>>

(***************************************************************************)
(* Bounds of the model.                                                    *)
(***************************************************************************)
\* the wall-clock seconds a generated operation id can carry are 0..MaxTimestamp
MaxTimestamp == 0

\* the security violations a session counts are 0..MaxViolations
MaxViolations == 3

\* the requests stored while responses run concurrently are at most MaxStored
MaxStored == 2

(***************************************************************************)
(* Python values.                                                          *)
(***************************************************************************)
PyNone == [py |-> "None"]

PyBool(b) == [py |-> "bool", b |-> b]

PyTrue == PyBool(TRUE)

PyFalse == PyBool(FALSE)

PyInt(n) == [py |-> "int", n |-> n]

PyStr(s) == [py |-> "str", s |-> s]

PyDict(d) == [py |-> "dict", d |-> d]

Raise == [py |-> "raise"]

EmptyDict == PyDict(<<>>)

EmptyStr == PyStr("")

IsStr(v) == v.py = "str"

IsDict(v) == v.py = "dict"

\* dict.get(key, default); a non-mapping has no .get (AttributeError)
DictGet(params, key, default) ==
    IF ~IsDict(params) THEN Raise
    ELSE IF key \in DOMAIN params.d THEN params.d[key] ELSE default

\* str.startswith on character sequences
StartsWith(s, prefix) ==
    /\ Len(s) >= Len(prefix)
    /\ SubSeq(s, 1, Len(prefix)) = prefix

\* the `in` operator on two str values
Contains(s, sub) ==
    \E i \in 1..(Len(s) - Len(sub) + 1) : \A j \in 1..Len(sub) : s[i + j - 1] = sub[j]

LowerChar(c) ==
    CASE c = "A" -> "a" [] c = "B" -> "b" [] c = "C" -> "c" [] c = "D" -> "d"
      [] c = "E" -> "e" [] c = "F" -> "f" [] c = "G" -> "g" [] c = "H" -> "h"
      [] c = "I" -> "i" [] c = "J" -> "j" [] c = "K" -> "k" [] c = "L" -> "l"
      [] c = "M" -> "m" [] c = "N" -> "n" [] c = "O" -> "o" [] c = "P" -> "p"
      [] c = "Q" -> "q" [] c = "R" -> "r" [] c = "S" -> "s" [] c = "T" -> "t"
      [] c = "U" -> "u" [] c = "V" -> "v" [] c = "W" -> "w" [] c = "X" -> "x"
      [] c = "Y" -> "y" [] c = "Z" -> "z" [] OTHER -> c

\* str.lower(): a new string, built once (the concatenation makes it a tuple)
Lower(s) == [i \in 1..Len(s) |-> LowerChar(s[i])] \o <<>>

(***************************************************************************)
(* String literals of the source.                                          *)
(***************************************************************************)
P_tmp == <<"/", "t", "m", "p", "/">>
P_var_tmp == <<"/", "v", "a", "r", "/", "t", "m", "p", "/">>
P_sandbox == <<".", "/", "e", "x", "e", "c", "u", "t", "i", "o", "n", "_", "s", "a", "n", "d", "b", "o", "x", "/">>
P_assets == <<".", "/", "a", "s", "s", "e", "t", "s", "/">>
P_docs == <<".", "/", "d", "o", "c", "s", "/">>

safe_path_patterns == <<P_tmp, P_var_tmp, P_sandbox, P_assets, P_docs>>

K_import_os == <<"i", "m", "p", "o", "r", "t", " ", "o", "s">>
K_import_subprocess == <<"i", "m", "p", "o", "r", "t", " ", "s", "u", "b", "p", "r", "o", "c", "e", "s", "s">>
K_import_sys == <<"i", "m", "p", "o", "r", "t", " ", "s", "y", "s">>
K_import_shutil == <<"i", "m", "p", "o", "r", "t", " ", "s", "h", "u", "t", "i", "l">>
K_import_socket == <<"i", "m", "p", "o", "r", "t", " ", "s", "o", "c", "k", "e", "t">>
K_import_requests == <<"i", "m", "p", "o", "r", "t", " ", "r", "e", "q", "u", "e", "s", "t", "s">>
K_urllib == <<"u", "r", "l", "l", "i", "b">>
K_eval == <<"e", "v", "a", "l", "(">>
K_exec == <<"e", "x", "e", "c", "(">>
K_dunder_import == <<"_", "_", "i", "m", "p", "o", "r", "t", "_", "_">>
K_open == <<"o", "p", "e", "n", "(">>
K_file == <<"f", "i", "l", "e", "(">>
K_input == <<"i", "n", "p", "u", "t", "(">>
K_raw_input == <<"r", "a", "w", "_", "i", "n", "p", "u", "t", "(">>

dangerous_keywords ==
    <<K_import_os, K_import_subprocess, K_import_sys, K_import_shutil,
      K_import_socket, K_import_requests, K_urllib, K_eval, K_exec,
      K_dunder_import, K_open, K_file, K_input, K_raw_input>>

S_print == <<"p", "r", "i", "n", "t", "(">>
S_return == <<"r", "e", "t", "u", "r", "n">>
S_def == <<"d", "e", "f", " ">>
S_class == <<"c", "l", "a", "s", "s", " ">>

safe_code_patterns == <<S_print, S_print, S_return, S_def, S_class>>

X_for == <<"f", "o", "r">>
X_while == <<"w", "h", "i", "l", "e">>
X_if == <<"i", "f">>
X_try == <<"t", "r", "y">>

complex_structure_ops == <<X_for, X_while, X_if, X_try>>


\* a str of n characters, for the inputs whose length is what matters
RECURSIVE Filler(_)
Filler(n) ==
    IF n = 0 THEN ""
    ELSE LET half == Filler(n \div 2)
         IN  IF n % 2 = 0 THEN half \o half ELSE half \o half \o "a"

\* the characters of the str values the calls of the model carry
Chars(s) ==
    CASE s = "" ->
           <<>>
      [] s = "/tmp/scratch.txt" ->
           <<"/", "t", "m", "p", "/", "s", "c", "r", "a", "t", "c", "h", ".", "t", "x", "t">>
      [] s = "/home/user/config.json" ->
           <<"/", "h", "o", "m", "e", "/", "u", "s", "e", "r", "/", "c", "o", "n", "f", "i", "g", ".", "j", "s", "o", "n">>
      [] s = "/tmp/x" ->
           <<"/", "t", "m", "p", "/", "x">>
      [] s = "/home/user/important.txt" ->
           <<"/", "h", "o", "m", "e", "/", "u", "s", "e", "r", "/", "i", "m", "p", "o", "r", "t", "a", "n", "t", ".", "t", "x", "t">>
      [] s = "/tmp" ->
           <<"/", "t", "m", "p">>
      [] s = "/var/tmp/a" ->
           <<"/", "v", "a", "r", "/", "t", "m", "p", "/", "a">>
      [] s = "./docs/a" ->
           <<".", "/", "d", "o", "c", "s", "/", "a">>
      [] s = "/TMP/x" ->
           <<"/", "T", "M", "P", "/", "x">>
      [] s = "print('hi')" ->
           <<"p", "r", "i", "n", "t", "(", "'", "h", "i", "'", ")">>
      [] s = "import os\nos.system('rm -rf /')" ->
           <<"i", "m", "p", "o", "r", "t", " ", "o", "s", "\n", "o", "s", ".", "s", "y", "s", "t", "e", "m", "(", "'", "r", "m", " ", "-", "r", "f", " ", "/", "'", ")">>
      [] s = "IMPORT OS" ->
           <<"I", "M", "P", "O", "R", "T", " ", "O", "S">>
      [] s = "x = 1" ->
           <<"x", " ", "=", " ", "1">>
      [] s = "print(x) for" ->
           <<"p", "r", "i", "n", "t", "(", "x", ")", " ", "f", "o", "r">>
      [] s = "PRINT(1)" ->
           <<"P", "R", "I", "N", "T", "(", "1", ")">>
      [] s = "delete_files" ->
           <<"d", "e", "l", "e", "t", "e", "_", "f", "i", "l", "e", "s">>
      [] s = "execute_code" ->
           <<"e", "x", "e", "c", "u", "t", "e", "_", "c", "o", "d", "e">>
      [] s = "execute" ->
           <<"e", "x", "e", "c", "u", "t", "e">>
      [] s = "deploy" ->
           <<"d", "e", "p", "l", "o", "y">>
      [] s = "delete_branch" ->
           <<"d", "e", "l", "e", "t", "e", "_", "b", "r", "a", "n", "c", "h">>
      [] s = "delete" ->
           <<"d", "e", "l", "e", "t", "e">>
      [] s = "remove" ->
           <<"r", "e", "m", "o", "v", "e">>
      [] s = "rm" ->
           <<"r", "m">>
      [] s = "copy_overwrite" ->
           <<"c", "o", "p", "y", "_", "o", "v", "e", "r", "w", "r", "i", "t", "e">>
      [] s = "overwrite" ->
           <<"o", "v", "e", "r", "w", "r", "i", "t", "e">>
      [] s = "replace" ->
           <<"r", "e", "p", "l", "a", "c", "e">>
      [] s = "run" ->
           <<"r", "u", "n">>
      [] s = "read" ->
           <<"r", "e", "a", "d">>
      [] s = "list" ->
           <<"l", "i", "s", "t">>
      [] s = "get" ->
           <<"g", "e", "t">>
      [] s = "view" ->
           <<"v", "i", "e", "w">>
      [] s = "show" ->
           <<"s", "h", "o", "w">>
      [] s = "status" ->
           <<"s", "t", "a", "t", "u", "s">>
      [] s = "info" ->
           <<"i", "n", "f", "o">>
      [] s = "DELETE" ->
           <<"D", "E", "L", "E", "T", "E">>
      [] s = "Remove" ->
           <<"R", "e", "m", "o", "v", "e">>
      [] s = "READ" ->
           <<"R", "E", "A", "D">>
      [] s = "Info" ->
           <<"I", "n", "f", "o">>
      [] s = "DELETE_FILES" ->
           <<"D", "E", "L", "E", "T", "E", "_", "F", "I", "L", "E", "S">>
      [] s = "EXECUTE" ->
           <<"E", "X", "E", "C", "U", "T", "E">>
      [] s = "Deploy" ->
           <<"D", "e", "p", "l", "o", "y">>
      [] s = "write" ->
           <<"w", "r", "i", "t", "e">>
      [] s = "archive" ->
           <<"a", "r", "c", "h", "i", "v", "e">>
      [] s = "./execution_sandbox/run.py" ->
           <<".", "/", "e", "x", "e", "c", "u", "t", "i", "o", "n", "_", "s", "a", "n", "d", "b", "o", "x", "/", "r", "u", "n", ".", "p", "y">>
      [] s = "./assets/logo.png" ->
           <<".", "/", "a", "s", "s", "e", "t", "s", "/", "l", "o", "g", "o", ".", "p", "n", "g">>
      [] s = "/home/tmp/x" ->
           <<"/", "h", "o", "m", "e", "/", "t", "m", "p", "/", "x">>
      [] s = "tmp/x" ->
           <<"t", "m", "p", "/", "x">>
      [] s = "print('information')" ->
           <<"p", "r", "i", "n", "t", "(", "'", "i", "n", "f", "o", "r", "m", "a", "t", "i", "o", "n", "'", ")">>
      [] s = "def f(): return 1" ->
           <<"d", "e", "f", " ", "f", "(", ")", ":", " ", "r", "e", "t", "u", "r", "n", " ", "1">>
      [] s = "class A: pass" ->
           <<"c", "l", "a", "s", "s", " ", "A", ":", " ", "p", "a", "s", "s">>
      [] s = "print(eval('1'))" ->
           <<"p", "r", "i", "n", "t", "(", "e", "v", "a", "l", "(", "'", "1", "'", ")", ")">>
      [] s = "while True: pass" ->
           <<"w", "h", "i", "l", "e", " ", "T", "r", "u", "e", ":", " ", "p", "a", "s", "s">>
      [] s = "print(EVAL('1'))" ->
           <<"p", "r", "i", "n", "t", "(", "E", "V", "A", "L", "(", "'", "1", "'", ")", ")">>
      [] s = "Return 1" ->
           <<"R", "e", "t", "u", "r", "n", " ", "1">>
      [] s = "Create a simple web page" ->
           <<"C", "r", "e", "a", "t", "e", " ", "a", " ", "s", "i", "m", "p", "l", "e", " ", "w", "e", "b", " ", "p", "a", "g", "e">>
      [] s = "   " ->
           <<" ", " ", " ">>
      [] s = "How to hack a website?" ->
           <<"H", "o", "w", " ", "t", "o", " ", "h", "a", "c", "k", " ", "a", " ", "w", "e", "b", "s", "i", "t", "e", "?">>
      [] s = "Reset my PASSWORD" ->
           <<"R", "e", "s", "e", "t", " ", "m", "y", " ", "P", "A", "S", "S", "W", "O", "R", "D">>
      [] s = "Tokenize this sentence" ->
           <<"T", "o", "k", "e", "n", "i", "z", "e", " ", "t", "h", "i", "s", " ", "s", "e", "n", "t", "e", "n", "c", "e">>
      [] s = " \n\t" ->
           <<" ", "\n", "\t">>
      [] s = "hack" ->
           <<"h", "a", "c", "k">>
      [] s = "exploit" ->
           <<"e", "x", "p", "l", "o", "i", "t">>
      [] s = "malware" ->
           <<"m", "a", "l", "w", "a", "r", "e">>
      [] s = "virus" ->
           <<"v", "i", "r", "u", "s">>
      [] s = "trojan" ->
           <<"t", "r", "o", "j", "a", "n">>
      [] s = "password" ->
           <<"p", "a", "s", "s", "w", "o", "r", "d">>
      [] s = "credential" ->
           <<"c", "r", "e", "d", "e", "n", "t", "i", "a", "l">>
      [] s = "secret" ->
           <<"s", "e", "c", "r", "e", "t">>
      [] s = "token" ->
           <<"t", "o", "k", "e", "n">>
      [] s = "admin" ->
           <<"a", "d", "m", "i", "n">>
      [] s = "root" ->
           <<"r", "o", "o", "t">>
      [] s = "sudo" ->
           <<"s", "u", "d", "o">>
      [] s = "privilege" ->
           <<"p", "r", "i", "v", "i", "l", "e", "g", "e">>
      [] s = "sudo hack" ->
           <<"s", "u", "d", "o", " ", "h", "a", "c", "k">>
      [] s = Filler(Len(s)) ->
           [i \in 1..Len(s) |-> "a"]
      [] Len(s) > 4 /\ s = Filler(Len(s) - 4) \o "hack" ->
           [i \in 1..(Len(s) - 4) |-> "a"] \o <<"h", "a", "c", "k">>
      [] Len(s) > 9 /\ s = "print('" \o Filler(Len(s) - 9) \o "')" ->
           <<"p", "r", "i", "n", "t", "(", "'">> \o [i \in 1..(Len(s) - 9) |-> "a"]
               \o <<"'", ")">>

(***************************************************************************)
(* SafetyClassifier.                                                       *)
(***************************************************************************)
\* an allow-list that accepts a prefix anywhere in the path
_is_safe_path_anywhere(path) ==
    IF ~IsStr(path) THEN Raise
    ELSE PyBool(\E i \in DOMAIN safe_path_patterns :
                    Contains(Chars(path.s), safe_path_patterns[i]))

\* _is_safe_path: path.startswith(pattern) for some allow-listed prefix;
\* a value that is not a str has no .startswith
_is_safe_path(path) ==
    IF ~IsStr(path) THEN Raise
    ELSE PyBool(\E i \in DOMAIN safe_path_patterns :
                    StartsWith(Chars(path.s), safe_path_patterns[i]))

\* a heuristic for which a benign marker is enough
_is_safe_code_any_marker(code) ==
    IF ~IsStr(code) THEN Raise
    ELSE IF \E i \in DOMAIN dangerous_keywords :
                Contains(Lower(Chars(code.s)), Lower(dangerous_keywords[i]))
         THEN PyFalse
         ELSE PyBool(\E i \in DOMAIN safe_code_patterns :
                         Contains(Chars(code.s), safe_code_patterns[i]))

\* a heuristic that looks for the dangerous substrings as they are spelled
_is_safe_code_case_sensitive(code) ==
    IF ~IsStr(code) THEN Raise
    ELSE IF \E i \in DOMAIN dangerous_keywords :
                Contains(Chars(code.s), dangerous_keywords[i])
         THEN PyFalse
         ELSE LET has_safe_pattern ==
                      \E i \in DOMAIN safe_code_patterns :
                          Contains(Chars(code.s), safe_code_patterns[i])
                  has_complex_structure ==
                      \E i \in DOMAIN complex_structure_ops :
                          Contains(Chars(code.s), complex_structure_ops[i])
              IN  PyBool(has_safe_pattern /\ ~has_complex_structure)

\* _is_safe_code: a value that is not a str has no .lower
_is_safe_code(code) ==
    IF ~IsStr(code) THEN Raise
    ELSE IF \E i \in DOMAIN dangerous_keywords :
                Contains(Lower(Chars(code.s)), Lower(dangerous_keywords[i]))
         THEN PyFalse
         ELSE LET has_safe_pattern ==
                      \E i \in DOMAIN safe_code_patterns :
                          Contains(Chars(code.s), safe_code_patterns[i])
                  has_complex_structure ==
                      \E i \in DOMAIN complex_structure_ops :
                          Contains(Chars(code.s), complex_structure_ops[i])
              IN  PyBool(has_safe_pattern /\ ~has_complex_structure)

\* `a and b` on two classifier results, b evaluated only when a is True
PyAnd(a, b) == IF a = Raise THEN Raise ELSE IF a = PyFalse THEN PyFalse ELSE b

\* a classifier whose default, for an unknown tool and for an unlisted
\* FileSystemTool operation, is safe
_is_safe_operation_fail_open(request) ==
    IF request.operation_type \in {"read", "list", "get", "view"} THEN PyTrue
    ELSE IF request.tool_name = "FileSystemTool" THEN
        IF request.operation_type = "delete" THEN
            LET path == DictGet(request.parameters, "path", EmptyStr)
            IN  IF path = Raise THEN Raise ELSE _is_safe_path(path)
        ELSE IF request.operation_type = "copy" THEN
            LET source == DictGet(request.parameters, "source_path", EmptyStr)
                dest == DictGet(request.parameters, "dest_path", EmptyStr)
            IN  IF source = Raise \/ dest = Raise THEN Raise
                ELSE PyAnd(_is_safe_path(source), _is_safe_path(dest))
        ELSE PyTrue
    ELSE IF request.tool_name = "CodeExecutorTool" THEN
        LET code == DictGet(request.parameters, "code", EmptyStr)
        IN  IF code = Raise THEN Raise ELSE _is_safe_code(code)
    ELSE IF request.tool_name = "GitManagerTool" THEN
        LET operation == DictGet(request.parameters, "operation", EmptyStr)
        IN  IF operation = Raise THEN Raise
            ELSE PyBool(operation \in {PyStr("status"), PyStr("log"),
                                       PyStr("show")})
    ELSE IF request.tool_name = "DockerBuilderTool" THEN
        LET operation == DictGet(request.parameters, "operation", EmptyStr)
        IN  IF operation = Raise THEN Raise
            ELSE PyBool(operation \in {PyStr("build"), PyStr("test")})
    ELSE PyTrue

\* _is_safe_operation(request)
_is_safe_operation(request) ==
    IF request.operation_type \in {"read", "list", "get", "view"} THEN PyTrue
    ELSE IF request.tool_name = "FileSystemTool" THEN
        IF request.operation_type = "read" THEN PyTrue
        ELSE IF request.operation_type = "delete" THEN
            LET path == DictGet(request.parameters, "path", EmptyStr)
            IN  IF path = Raise THEN Raise ELSE _is_safe_path(path)
        ELSE IF request.operation_type = "copy" THEN
            LET source == DictGet(request.parameters, "source_path", EmptyStr)
                dest == DictGet(request.parameters, "dest_path", EmptyStr)
            IN  IF source = Raise \/ dest = Raise THEN Raise
                ELSE PyAnd(_is_safe_path(source), _is_safe_path(dest))
        ELSE PyFalse
    ELSE IF request.tool_name = "CodeExecutorTool" THEN
        LET code == DictGet(request.parameters, "code", EmptyStr)
        IN  IF code = Raise THEN Raise ELSE _is_safe_code(code)
    ELSE IF request.tool_name = "GitManagerTool" THEN
        LET operation == DictGet(request.parameters, "operation", EmptyStr)
        IN  IF operation = Raise THEN Raise
            ELSE PyBool(operation \in {PyStr("status"), PyStr("log"),
                                       PyStr("show")})
    ELSE IF request.tool_name = "DockerBuilderTool" THEN
        LET operation == DictGet(request.parameters, "operation", EmptyStr)
        IN  IF operation = Raise THEN Raise
            ELSE PyBool(operation \in {PyStr("build"), PyStr("test")})
    ELSE PyFalse

(***************************************************************************)
(* ConfirmationPolicy.                                                     *)
(***************************************************************************)
D_delete == <<"d", "e", "l", "e", "t", "e">>
D_remove == <<"r", "e", "m", "o", "v", "e">>
D_rm == <<"r", "m">>
D_copy_overwrite == <<"c", "o", "p", "y", "_", "o", "v", "e", "r", "w", "r", "i", "t", "e">>
D_overwrite == <<"o", "v", "e", "r", "w", "r", "i", "t", "e">>
D_replace == <<"r", "e", "p", "l", "a", "c", "e">>
D_run == <<"r", "u", "n">>

destructive_operations ==
    <<D_delete, D_remove, D_rm, D_copy_overwrite, D_overwrite, D_replace, D_run>>

O_read == <<"r", "e", "a", "d">>
O_list == <<"l", "i", "s", "t">>
O_get == <<"g", "e", "t">>
O_view == <<"v", "i", "e", "w">>
O_show == <<"s", "h", "o", "w">>
O_status == <<"s", "t", "a", "t", "u", "s">>
O_info == <<"i", "n", "f", "o">>

safe_operations == <<O_read, O_list, O_get, O_view, O_show, O_status, O_info>>

\* `x in list`
InList(x, list) == \E i \in DOMAIN list : list[i] = x

\* len(v): the characters of a str, the keys of a dict; None, a bool and an
\* int have no len (TypeError)
PyLen(v) ==
    CASE v.py = "str" -> PyInt(Len(Chars(v.s)))
      [] v.py = "dict" -> PyInt(Cardinality(DOMAIN v.d))
      [] OTHER -> Raise

\* the rule table with the operation type compared as it is spelled
should_require_confirmation_case_sensitive(operation_type, parameters) ==
    IF operation_type = "delete_files" THEN PyTrue
    ELSE IF operation_type \in {"execute_code", "execute"} THEN
        LET code == DictGet(parameters, "code", EmptyStr)
            length == IF code = Raise THEN Raise ELSE PyLen(code)
        IN  IF length = Raise THEN Raise ELSE PyBool(length.n > 200)
    ELSE IF operation_type = "deploy" THEN
        LET environment == DictGet(parameters, "environment", PyNone)
        IN  IF environment = Raise THEN Raise
            ELSE PyBool(environment = PyStr("production"))
    ELSE IF operation_type = "delete_branch" THEN
        LET branch == DictGet(parameters, "branch", PyNone)
        IN  IF branch = Raise THEN Raise ELSE PyBool(branch = PyStr("main"))
    ELSE IF InList(Chars(operation_type), destructive_operations) THEN PyTrue
    ELSE IF InList(Chars(operation_type), safe_operations) THEN PyFalse
    ELSE PyTrue

\* the rule table with a threshold that 200 characters already reach
should_require_confirmation_inclusive_threshold(operation_type, parameters) ==
    IF operation_type = "delete_files" THEN PyTrue
    ELSE IF operation_type \in {"execute_code", "execute"} THEN
        LET code == DictGet(parameters, "code", EmptyStr)
            length == IF code = Raise THEN Raise ELSE PyLen(code)
        IN  IF length = Raise THEN Raise ELSE PyBool(length.n >= 200)
    ELSE IF operation_type = "deploy" THEN
        LET environment == DictGet(parameters, "environment", PyNone)
        IN  IF environment = Raise THEN Raise
            ELSE PyBool(environment = PyStr("production"))
    ELSE IF operation_type = "delete_branch" THEN
        LET branch == DictGet(parameters, "branch", PyNone)
        IN  IF branch = Raise THEN Raise ELSE PyBool(branch = PyStr("main"))
    ELSE IF InList(Lower(Chars(operation_type)), destructive_operations) THEN PyTrue
    ELSE IF InList(Lower(Chars(operation_type)), safe_operations) THEN PyFalse
    ELSE PyTrue

\* the rule table with an open default
should_require_confirmation_open_default(operation_type, parameters) ==
    IF operation_type = "delete_files" THEN PyTrue
    ELSE IF operation_type \in {"execute_code", "execute"} THEN
        LET code == DictGet(parameters, "code", EmptyStr)
            length == IF code = Raise THEN Raise ELSE PyLen(code)
        IN  IF length = Raise THEN Raise ELSE PyBool(length.n > 200)
    ELSE IF operation_type = "deploy" THEN
        LET environment == DictGet(parameters, "environment", PyNone)
        IN  IF environment = Raise THEN Raise
            ELSE PyBool(environment = PyStr("production"))
    ELSE IF operation_type = "delete_branch" THEN
        LET branch == DictGet(parameters, "branch", PyNone)
        IN  IF branch = Raise THEN Raise ELSE PyBool(branch = PyStr("main"))
    ELSE IF InList(Lower(Chars(operation_type)), destructive_operations) THEN PyTrue
    ELSE IF InList(Lower(Chars(operation_type)), safe_operations) THEN PyFalse
    ELSE PyFalse

\* should_require_confirmation(operation_type, parameters)
should_require_confirmation(operation_type, parameters) ==
    IF operation_type = "delete_files" THEN PyTrue
    ELSE IF operation_type \in {"execute_code", "execute"} THEN
        LET code == DictGet(parameters, "code", EmptyStr)
            length == IF code = Raise THEN Raise ELSE PyLen(code)
        IN  IF length = Raise THEN Raise ELSE PyBool(length.n > 200)
    ELSE IF operation_type = "deploy" THEN
        LET environment == DictGet(parameters, "environment", PyNone)
        IN  IF environment = Raise THEN Raise
            ELSE PyBool(environment = PyStr("production"))
    ELSE IF operation_type = "delete_branch" THEN
        LET branch == DictGet(parameters, "branch", PyNone)
        IN  IF branch = Raise THEN Raise ELSE PyBool(branch = PyStr("main"))
    ELSE IF InList(Lower(Chars(operation_type)), destructive_operations) THEN PyTrue
    ELSE IF InList(Lower(Chars(operation_type)), safe_operations) THEN PyFalse
    ELSE PyTrue

(***************************************************************************)
(* ConfirmationGate.  A ConfirmationRequest is the record of its           *)
(* operation_id, tool_name, operation_type, parameters, confirmation_type  *)
(* and requires_confirmation fields; description, timestamp and context    *)
(* are carried by the source but never read by it, and are left out.       *)
(***************************************************************************)
BOOLEAN_TYPE == "boolean"

STRUCTURED_TYPE == "structured"

CONDITIONAL_TYPE == "conditional"

ConfirmationType == {BOOLEAN_TYPE, STRUCTURED_TYPE, CONDITIONAL_TYPE}

ConfirmationRequest(operation_id, tool_name, operation_type, parameters, confirmation_type, requires_confirmation) ==
    [operation_id |-> operation_id, tool_name |-> tool_name,
     operation_type |-> operation_type, parameters |-> parameters,
     confirmation_type |-> confirmation_type,
     requires_confirmation |-> requires_confirmation]

ConfirmationResponse(operation_id, confirmed, payload) ==
    [operation_id |-> operation_id, confirmed |-> confirmed, payload |-> payload]

\* The behaviours a registered conditional predicate can have when awaited
\* with the request's parameters: it answers that confirmation is needed,
\* answers that it is not needed, or raises.
PredicateKinds == {"needed", "not_needed", "raises"}

threshold_func(kind, parameters) ==
    CASE kind = "needed" -> PyTrue
      [] kind = "not_needed" -> PyFalse
      [] OTHER -> Raise

\* The behaviours of a registered response handler: it completes or raises.
HandlerKinds == {"completes", "raises"}

response_handler(kind, response) ==
    IF kind = "completes" THEN PyNone ELSE Raise

\* variant of _handle_boolean_confirmation that approves without asking the
\* classifier
_handle_boolean_confirmation_approves_all(request) ==
    [result |-> PyTrue, consulted |-> {}, raised |-> {}]

\* a boolean helper that answers None, "waiting", for a request that is not
\* safe
_handle_boolean_confirmation_waits(request) ==
    LET safe == _is_safe_operation(request)
    IN  [result |-> IF safe = Raise THEN Raise
                    ELSE IF safe = PyTrue THEN PyTrue ELSE PyNone,
         consulted |-> {"classifier"},
         raised |-> IF safe = Raise THEN {"classifier"} ELSE {}]

\* _handle_boolean_confirmation: the outcome of a helper is the record of
\* its result (or Raise), of the collaborators it consulted and of the
\* collaborators that raised while it ran
_handle_boolean_confirmation(request) ==
    LET safe == _is_safe_operation(request)
    IN  [result |-> IF safe = Raise THEN Raise
                    ELSE IF safe = PyTrue THEN PyTrue ELSE PyFalse,
         consulted |-> {"classifier"},
         raised |-> IF safe = Raise THEN {"classifier"} ELSE {}]

\* a structured helper that answers with an approval
_handle_structured_confirmation_approves(request) ==
    [result |-> PyDict([approved |-> PyTrue]), consulted |-> {}, raised |-> {}]

_handle_structured_confirmation(request) ==
    [result |-> PyDict([approved |-> PyFalse,
                        reason |-> PyStr("Confirmation required")]),
     consulted |-> {}, raised |-> {}]

\* variant of _handle_conditional_confirmation without the inner
\* try/except: an exception of the predicate leaves the helper
_handle_conditional_confirmation_uncaught(callbacks, request) ==
    LET registered == request.operation_id \in DOMAIN callbacks
        needs_confirmation ==
            threshold_func(callbacks[request.operation_id], request.parameters)
        boolean == _handle_boolean_confirmation(request)
    IN  IF registered /\ needs_confirmation = PyFalse
        THEN [result |-> PyTrue, consulted |-> {"predicate"}, raised |-> {}]
        ELSE IF registered /\ needs_confirmation = Raise
        THEN [result |-> Raise, consulted |-> {"predicate"}, raised |-> {"predicate"}]
        ELSE [result |-> boolean.result,
              consulted |-> boolean.consulted \cup
                            (IF registered THEN {"predicate"} ELSE {}),
              raised |-> boolean.raised]

\* a conditional helper that never looks for a registered predicate
_handle_conditional_confirmation_ignores_predicate(callbacks, request) ==
    _handle_boolean_confirmation(request)

_handle_conditional_confirmation(callbacks, request) ==
    LET registered == request.operation_id \in DOMAIN callbacks
        needs_confirmation ==
            threshold_func(callbacks[request.operation_id], request.parameters)
        boolean == _handle_boolean_confirmation(request)
    IN  IF registered /\ needs_confirmation = PyFalse
        THEN [result |-> PyTrue, consulted |-> {"predicate"}, raised |-> {}]
        ELSE [result |-> boolean.result,
              consulted |-> boolean.consulted \cup
                            (IF registered THEN {"predicate"} ELSE {}),
              raised |-> boolean.raised \cup
                         (IF registered /\ needs_confirmation = Raise
                          THEN {"predicate"} ELSE {})]

\* variant of _get_default_response that answers True for every type
_get_default_response_always_true(confirmation_type) == PyTrue

_get_default_response(confirmation_type) ==
    IF confirmation_type = BOOLEAN_TYPE THEN PyTrue
    ELSE IF confirmation_type = STRUCTURED_TYPE
         THEN PyDict([auto_approved |-> PyTrue])
         ELSE PyNone

\* variant of the dispatch without its try/except: the exception leaves
\* request_confirmation
deny_on_error_uncaught(outcome) == outcome

\* a dispatch that approves when a helper raised
deny_on_error_approves(outcome) ==
    IF outcome.result = Raise THEN [outcome EXCEPT !.result = PyTrue]
    ELSE outcome

\* the try/except around the dispatch: any exception is a denial
deny_on_error(outcome) ==
    IF outcome.result = Raise THEN [outcome EXCEPT !.result = PyFalse]
    ELSE outcome

\* a request_confirmation that keeps no record of the request
store_pending_skipped(pending, request) == pending

\* a store that keeps the new request only
store_pending_evicts_others(pending, request) ==
    [id \in {request.operation_id} |-> request]

\* a store that keeps the record already pending under the id
store_pending_keeps_first(pending, request) ==
    [id \in DOMAIN pending \cup {request.operation_id} |->
        IF id \in DOMAIN pending THEN pending[id] ELSE request]

\* self.pending_requests[operation_id] = request
store_pending(pending, request) ==
    [id \in DOMAIN pending \cup {request.operation_id} |->
        IF id = request.operation_id THEN request ELSE pending[id]]

\* request_confirmation: the registry after the call, the request record
\* it built, the value returned (Raise when an exception leaves the call),
\* the collaborators consulted and those that raised
request_confirmation(pending, callbacks, operation_id, tool_name, operation_type, parameters, confirmation_type, requires_confirmation) ==
    LET request == ConfirmationRequest(operation_id, tool_name, operation_type,
                       parameters, confirmation_type, requires_confirmation)
        outcome ==
            IF ~requires_confirmation
            THEN [result |-> _get_default_response(confirmation_type),
                  consulted |-> {}, raised |-> {}]
            ELSE deny_on_error(
                   IF confirmation_type = BOOLEAN_TYPE
                   THEN _handle_boolean_confirmation(request)
                   ELSE IF confirmation_type = STRUCTURED_TYPE
                   THEN _handle_structured_confirmation(request)
                   ELSE IF confirmation_type = CONDITIONAL_TYPE
                   THEN _handle_conditional_confirmation(callbacks, request)
                   ELSE [result |-> PyNone, consulted |-> {}, raised |-> {}])
    IN  [pending_requests |-> store_pending(pending, request),
         request |-> request,
         result |-> outcome.result,
         consulted |-> outcome.consulted,
         raised |-> outcome.raised]

\* variant of the clean-up that drops every pending entry
remove_pending_clears_all(pending, operation_id) == <<>>

\* del self.pending_requests[operation_id]
remove_pending(pending, operation_id) ==
    [id \in DOMAIN pending \ {operation_id} |-> pending[id]]

\* variant of respond_to_confirmation without the check that the operation
\* is pending: the handler registered under the id runs in any case
respond_to_confirmation_unchecked(pending, handlers, operation_id, confirmed, payload) ==
    LET response == ConfirmationResponse(operation_id, confirmed, payload)
        has_handler == operation_id \in DOMAIN handlers
    IN  IF has_handler /\ response_handler(handlers[operation_id], response) = Raise
        THEN [pending_requests |-> pending, request |-> PyNone,
              result |-> PyFalse, handler_calls |-> <<response>>]
        ELSE [pending_requests |-> remove_pending(pending, operation_id),
              request |-> PyNone, result |-> PyTrue,
              handler_calls |-> IF has_handler THEN <<response>> ELSE <<>>]

\* variant of respond_to_confirmation that evicts the pending entry also
\* when the handler raises
respond_to_confirmation_always_evicts(pending, handlers, operation_id, confirmed, payload) ==
    IF operation_id \notin DOMAIN pending
    THEN [pending_requests |-> pending, request |-> PyNone, result |-> PyFalse,
          handler_calls |-> <<>>]
    ELSE LET request == pending[operation_id]
             response == ConfirmationResponse(operation_id, confirmed, payload)
             has_handler == operation_id \in DOMAIN handlers
         IN  [pending_requests |-> remove_pending(pending, operation_id),
              request |-> request,
              result |-> IF has_handler /\
                            response_handler(handlers[operation_id], response) = Raise
                         THEN PyFalse ELSE PyTrue,
              handler_calls |-> IF has_handler THEN <<response>> ELSE <<>>]

\* respond_to_confirmation: the registry after the call, the pending
\* request it read, the value returned and the responses the registered
\* handler was invoked with, in order
respond_to_confirmation(pending, handlers, operation_id, confirmed, payload) ==
    IF operation_id \notin DOMAIN pending
    THEN [pending_requests |-> pending, request |-> PyNone, result |-> PyFalse,
          handler_calls |-> <<>>]
    ELSE LET request == pending[operation_id]
             response == ConfirmationResponse(operation_id, confirmed, payload)
             has_handler == operation_id \in DOMAIN handlers
         IN  IF has_handler /\ response_handler(handlers[operation_id], response) = Raise
             THEN [pending_requests |-> pending, request |-> request,
                   result |-> PyFalse, handler_calls |-> <<response>>]
             ELSE [pending_requests |-> remove_pending(pending, operation_id),
                   request |-> request, result |-> PyTrue,
                   handler_calls |-> IF has_handler THEN <<response>> ELSE <<>>]

\* respond_to_confirmation up to its only await, the call of the registered
\* handler (line 165): the registry, the pending request read, the value
\* returned when the call ends before the await (None when it is suspended
\* in the handler), the handler awaited ("none" when the call ended) and
\* the responses handed to it
respond_until_await(pending, handlers, operation_id, confirmed, payload) ==
    IF operation_id \notin DOMAIN pending
    THEN [pending_requests |-> pending, request |-> PyNone, result |-> PyFalse,
          awaiting |-> "none", handler_calls |-> <<>>]
    ELSE IF operation_id \notin DOMAIN handlers
    THEN [pending_requests |-> remove_pending(pending, operation_id),
          request |-> pending[operation_id], result |-> PyTrue,
          awaiting |-> "none", handler_calls |-> <<>>]
    ELSE [pending_requests |-> pending, request |-> pending[operation_id],
          result |-> PyNone, awaiting |-> handlers[operation_id],
          handler_calls |-> <<ConfirmationResponse(operation_id, confirmed, payload)>>]

\* respond_to_confirmation from the moment the awaited handler ends: False
\* when it raised; otherwise `del self.pending_requests[operation_id]` (line
\* 172), outside any try, raises KeyError when the entry is gone
respond_after_await(pending, operation_id, handler, response) ==
    IF response_handler(handler, response) = Raise
    THEN [pending_requests |-> pending, result |-> PyFalse]
    ELSE IF operation_id \notin DOMAIN pending
    THEN [pending_requests |-> pending, result |-> Raise]
    ELSE [pending_requests |-> remove_pending(pending, operation_id), result |-> PyTrue]

\* self.confirmation_callbacks[operation_id] = callback
set_confirmation_callback(callbacks, operation_id, callback) ==
    [id \in DOMAIN callbacks \cup {operation_id} |->
        IF id = operation_id THEN callback ELSE callbacks[id]]

\* self.response_handlers[operation_id] = handler
set_response_handler(handlers, operation_id, handler) ==
    [id \in DOMAIN handlers \cup {operation_id} |->
        IF id = operation_id THEN handler ELSE handlers[id]]

\* variant of get_pending_confirmations that hands out the map and empties
\* the registry
get_pending_confirmations_drains(pending) ==
    [pending_requests |-> <<>>, result |-> pending]

\* get_pending_confirmations: returns a copy, the registry keeps its map
get_pending_confirmations(pending) ==
    [pending_requests |-> pending, result |-> pending]

\* clear_pending_confirmations
clear_pending_confirmations(pending) == <<>>

(***************************************************************************)
(* Convenience wrappers.                                                   *)
(***************************************************************************)
\* f"{tool_name}_{operation_type}_{int(datetime.now().timestamp())}"
generated_operation_id(tool_name, operation_type, timestamp) ==
    [tool_name |-> tool_name, operation_type |-> operation_type,
     timestamp |-> timestamp]

\* truth value of a returned object, as tested by `result or ...`
Truthy(v) ==
    CASE v.py = "None" -> FALSE
      [] v.py = "bool" -> v.b
      [] v.py = "dict" -> DOMAIN v.d # {}
      [] OTHER -> TRUE

request_destructive_confirmation(pending, callbacks, tool_name, operation_type, parameters, operation_id, timestamp) ==
    request_confirmation(pending, callbacks,
        IF operation_id = PyNone
        THEN generated_operation_id(tool_name, operation_type, timestamp)
        ELSE operation_id,
        tool_name, operation_type, parameters, BOOLEAN_TYPE, TRUE)

\* `result or {"confirmed": False}`
normalize_structured_result(result) ==
    IF Truthy(result) THEN result ELSE PyDict([confirmed |-> PyFalse])

request_structured_confirmation(pending, callbacks, tool_name, operation_type, parameters, operation_id, timestamp) ==
    LET gate == request_confirmation(pending, callbacks,
                    IF operation_id = PyNone
                    THEN generated_operation_id(tool_name, operation_type, timestamp)
                    ELSE operation_id,
                    tool_name, operation_type, parameters, STRUCTURED_TYPE, TRUE)
    IN  [gate EXCEPT !.result = normalize_structured_result(gate.result)]

(***************************************************************************)
(* Callback dispatch (src/agent_envoyou/callback_patterns.py): the         *)
(* callbacks an agent runtime invokes before an agent runs and before a    *)
(* tool executes.  A callback that returns None lets the agent or the tool *)
(* proceed; any other result replaces it.  state is the state mapping of   *)
(* the callback context.                                                   *)
(***************************************************************************)
FORBIDDEN_KEYWORDS ==
    <<"hack", "exploit", "malware", "virus", "trojan",
      "password", "credential", "secret", "token",
      "admin", "root", "sudo", "privilege">>

MAX_REQUEST_LENGTH == 10000

\* types.Content(text=...)
Content(text) == [py |-> "Content", text |-> text]

\* str.strip() leaves nothing: every character is white space
IsBlank(s) == \A i \in 1..Len(s) : s[i] \in {" ", "\t", "\n", "\r"}

\* `not v` for the values a caller hands over
Falsy(v) ==
    CASE v.py = "None" -> TRUE
      [] v.py = "bool" -> ~v.b
      [] v.py = "int" -> v.n = 0
      [] v.py = "str" -> v.s = ""
      [] v.py = "dict" -> DOMAIN v.d = {}
      [] OTHER -> FALSE

\* the loop over FORBIDDEN_KEYWORDS from position i on: the position of the
\* first keyword found in input_lower, 0 when the loop ends without one
RECURSIVE first_forbidden(_, _)
first_forbidden(input_lower, i) ==
    IF i > Len(FORBIDDEN_KEYWORDS) THEN 0
    ELSE IF Contains(input_lower, Chars(FORBIDDEN_KEYWORDS[i])) THEN i
    ELSE first_forbidden(input_lower, i + 1)

\* what _check_security_policy returns when the loop stopped at position hit
security_policy_result(hit) ==
    IF hit # 0
    THEN PyDict([allowed |-> PyFalse,
                 reason |-> PyStr("Contains forbidden keyword: " \o FORBIDDEN_KEYWORDS[hit])])
    ELSE PyDict([allowed |-> PyTrue])

\* _check_security_policy(input_text)
_check_security_policy(input_text) ==
    security_policy_result(first_forbidden(Lower(Chars(input_text.s)), 1))

\* _check_resource_quota
_check_resource_quota(context, agent_name) == PyDict([allowed |-> PyTrue])

\* _validate_session_state
_validate_session_state(context) == PyDict([valid |-> PyTrue])

\* state.get('security_violations', 0)
security_violations(context) ==
    IF "security_violations" \in DOMAIN context THEN context["security_violations"] ELSE PyInt(0)

\* state['security_violations'] = state.get('security_violations', 0) + 1
count_violation(context) ==
    [k \in DOMAIN context \cup {"security_violations"} |->
        IF k = "security_violations" THEN PyInt(security_violations(context).n + 1)
        ELSE context[k]]

\* steps 2 to 6 that count no violation
after_input_validation_uncounted(context, agent_name, security_check) ==
    IF security_check.d["allowed"] # PyTrue THEN
        [state |-> context,
         result |-> Content("Security policy violation: " \o security_check.d["reason"].s),
         raised |-> {}]
    ELSE [state |-> context, result |-> PyNone, raised |-> {}]

\* steps 2 to 6 of before_agent_callback, given what _check_security_policy
\* returned: security policy, resource quota, session state
after_input_validation(context, agent_name, security_check) ==
    IF security_check.d["allowed"] # PyTrue THEN
        [state |-> count_violation(context),
         result |-> Content("Security policy violation: " \o security_check.d["reason"].s),
         raised |-> {}]
    ELSE IF _check_resource_quota(context, agent_name).d["allowed"] # PyTrue THEN
        [state |-> context, result |-> Content("Resource quota exceeded: "), raised |-> {}]
    ELSE IF _validate_session_state(context).d["valid"] # PyTrue THEN
        [state |-> context, result |-> Content("Session error: "), raised |-> {}]
    ELSE [state |-> context, result |-> PyNone, raised |-> {}]

\* a before_agent_callback that counts no violation
before_agent_callback_uncounted(context, agent_name, user_input) ==
    IF Falsy(user_input) THEN
        [state |-> context, result |-> Content("Error: Empty input provided"), raised |-> {}]
    ELSE IF ~IsStr(user_input) THEN
        [state |-> context, result |-> Content("Internal error during request validation"),
         raised |-> {"before_agent_callback"}]
    ELSE IF IsBlank(Chars(user_input.s)) THEN
        [state |-> context, result |-> Content("Error: Empty input provided"), raised |-> {}]
    ELSE IF Len(Chars(user_input.s)) > MAX_REQUEST_LENGTH THEN
        [state |-> context,
         result |-> Content("Error: Input too long (max " \o ToString(MAX_REQUEST_LENGTH) \o " characters)"),
         raised |-> {}]
    ELSE after_input_validation_uncounted(context, agent_name, _check_security_policy(user_input))

\* before_agent_callback(callback_context, agent_name, user_input): the new
\* state mapping and the returned Content, None when the agent may run; a
\* user_input that is not a str has no .strip, and the except clause
\* answers for it
before_agent_callback(context, agent_name, user_input) ==
    IF Falsy(user_input) THEN
        [state |-> context, result |-> Content("Error: Empty input provided"), raised |-> {}]
    ELSE IF ~IsStr(user_input) THEN
        [state |-> context, result |-> Content("Internal error during request validation"),
         raised |-> {"before_agent_callback"}]
    ELSE IF IsBlank(Chars(user_input.s)) THEN
        [state |-> context, result |-> Content("Error: Empty input provided"), raised |-> {}]
    ELSE IF Len(Chars(user_input.s)) > MAX_REQUEST_LENGTH THEN
        [state |-> context,
         result |-> Content("Error: Input too long (max " \o ToString(MAX_REQUEST_LENGTH) \o " characters)"),
         raised |-> {}]
    ELSE after_input_validation(context, agent_name, _check_security_policy(user_input))

\* _validate_tool_arguments
_validate_tool_arguments(tool_name, args) == PyDict([valid |-> PyTrue])

\* _check_tool_authorization
_check_tool_authorization(context, tool_name, args) == PyDict([authorized |-> PyTrue])

\* _check_tool_resources
_check_tool_resources(context, tool_name) == PyDict([available |-> PyTrue])

\* _check_tool_rate_limits
_check_tool_rate_limits(context, tool_name) == PyDict([allowed |-> PyTrue])

\* _sanitize_tool_arguments
_sanitize_tool_arguments(args) == args

\* _prepare_tool_execution
_prepare_tool_execution(context, tool_name, args) == args

\* the error mapping a blocked tool call gets in place of its result
ToolError(kind, tool_name) == PyDict([error |-> PyStr(kind), tool |-> PyStr(tool_name)])

\* before_tool_callback(tool_context, tool_name, tool_args): the returned
\* mapping, None when the tool may execute, and the helpers it consulted
before_tool_callback(context, tool_name, tool_args) ==
    LET sanitized_args == _sanitize_tool_arguments(tool_args)
        prepared_args == _prepare_tool_execution(context, tool_name, sanitized_args)
    IN  IF _validate_tool_arguments(tool_name, tool_args).d["valid"] # PyTrue THEN
            [result |-> ToolError("Invalid arguments: ", tool_name),
             consulted |-> {"_validate_tool_arguments"}]
        ELSE IF _check_tool_authorization(context, tool_name, tool_args).d["authorized"] # PyTrue THEN
            [result |-> ToolError("Authorization failed: ", tool_name),
             consulted |-> {"_validate_tool_arguments", "_check_tool_authorization"}]
        ELSE IF _check_tool_resources(context, tool_name).d["available"] # PyTrue THEN
            [result |-> ToolError("Resource unavailable: ", tool_name),
             consulted |-> {"_validate_tool_arguments", "_check_tool_authorization",
                            "_check_tool_resources"}]
        ELSE IF _check_tool_rate_limits(context, tool_name).d["allowed"] # PyTrue THEN
            [result |-> ToolError("Rate limit exceeded: ", tool_name),
             consulted |-> {"_validate_tool_arguments", "_check_tool_authorization",
                            "_check_tool_resources", "_check_tool_rate_limits"}]
        ELSE [result |-> IF prepared_args # sanitized_args THEN prepared_args ELSE PyNone,
              consulted |-> {"_validate_tool_arguments", "_check_tool_authorization",
                             "_check_tool_resources", "_check_tool_rate_limits",
                             "_sanitize_tool_arguments", "_prepare_tool_execution"}]

(***************************************************************************)
(* Inputs of the calls.                                                    *)
(***************************************************************************)
PathTmpScratch == "/tmp/scratch.txt"

PathHomeConfig == "/home/user/config.json"

Op1 == [name |-> "op1"]

\* operation ids a caller supplies
OperationIds == {Op1}

\* the tool, operation type and parameter bag of a call: a deletion under
\* an allow-listed directory, a deletion outside the allow-list, and a
\* malformed call whose parameter bag is not a mapping
ToolCalls ==
    { [tool_name |-> "FileSystemTool", operation_type |-> "delete",
       parameters |-> PyDict([path |-> PyStr(PathTmpScratch)])],
      [tool_name |-> "FileSystemTool", operation_type |-> "delete",
       parameters |-> PyDict([path |-> PyStr(PathHomeConfig)])],
      [tool_name |-> "FileSystemTool", operation_type |-> "delete",
       parameters |-> PyNone] }

FileDelete(parameters) ==
    [tool_name |-> "FileSystemTool", operation_type |-> "delete",
     parameters |-> parameters]

FileCopy(source_path, dest_path) ==
    [tool_name |-> "FileSystemTool", operation_type |-> "copy",
     parameters |-> PyDict([source_path |-> source_path, dest_path |-> dest_path])]

CodeExecute(parameters) ==
    [tool_name |-> "CodeExecutorTool", operation_type |-> "execute",
     parameters |-> parameters]

ToolOperation(tool_name, operation_type, parameters) ==
    [tool_name |-> tool_name, operation_type |-> operation_type,
     parameters |-> parameters]

\* the calls on which the decision of the gate is explored: every tool and
\* rule of the classifier, with paths on and off the allow-list, code that
\* passes and fails the heuristic, absent keys, values that are not
\* strings and parameter bags that are not mappings
GateCalls ==
    { FileDelete(PyDict([path |-> PyStr(p)])) :
          p \in {PathTmpScratch, PathHomeConfig, "/tmp/x",
                 "/home/user/important.txt", "/tmp", "/var/tmp/a", "./docs/a",
                 "/TMP/x"} }
    \cup { FileDelete(EmptyDict), FileDelete(PyNone),
           FileDelete(PyDict([path |-> PyInt(5)])),
           FileDelete(PyDict([path |-> PyNone])) }
    \cup { FileCopy(PyStr("/tmp/x"), PyStr("./docs/a")),
           FileCopy(PyStr("/tmp/x"), PyStr(PathHomeConfig)),
           FileCopy(PyStr(PathHomeConfig), PyInt(5)),
           FileCopy(PyStr("/tmp/x"), PyInt(5)),
           ToolOperation("FileSystemTool", "copy", EmptyDict),
           ToolOperation("FileSystemTool", "write",
                         PyDict([path |-> PyStr("/tmp/x")])),
           ToolOperation("FileSystemTool", "read",
                         PyDict([path |-> PyStr(PathHomeConfig)])) }
    \cup { CodeExecute(PyDict([code |-> PyStr(c)])) :
               c \in {"print('hi')", "import os\nos.system('rm -rf /')",
                      "IMPORT OS", "x = 1", "print(x) for", "PRINT(1)"} }
    \cup { CodeExecute(EmptyDict), CodeExecute(PyNone),
           CodeExecute(PyDict([code |-> PyNone])),
           ToolOperation("CodeExecutorTool", "view", PyNone) }
    \cup { ToolOperation("GitManagerTool", "git", PyDict([operation |-> PyStr(o)])) :
               o \in {"status", "log", "show", "build"} }
    \cup { ToolOperation("DockerBuilderTool", "docker", PyDict([operation |-> PyStr(o)])) :
               o \in {"build", "test", "status"} }
    \cup { ToolOperation("GitManagerTool", "git", EmptyDict),
           ToolOperation("DockerBuilderTool", "docker", PyNone),
           ToolOperation("OtherTool", "delete", PyDict([path |-> PyStr("/tmp/x")])),
           ToolOperation("OtherTool", "list", PyNone),
           ToolOperation("OtherTool", "get", EmptyDict) }

\* the operation types the policy is asked about: every name of its rule
\* table, names that differ from them in case only, and unknown names
PolicyOperationTypes ==
    {"delete_files", "execute_code", "execute", "deploy", "delete_branch",
     "delete", "remove", "rm", "copy_overwrite", "overwrite", "replace", "run",
     "read", "list", "get", "view", "show", "status", "info",
     "DELETE", "Remove", "READ", "Info", "DELETE_FILES", "EXECUTE", "Deploy",
     "write", "archive", ""}

\* code of 0, 11, 200 and 201 characters
PolicyCodes == {"", "print('hi')", Filler(200), Filler(201)}

\* the parameter bags the policy is asked about: code on both sides of the
\* length threshold, environments, branches, absent keys, values that have
\* no length and a bag that is not a mapping
PolicyParameters ==
    { PyDict([code |-> PyStr(c)]) : c \in PolicyCodes }
    \cup { PyDict([code |-> PyStr(Filler(201)), environment |-> PyStr("production"),
                   branch |-> PyStr("main")]) }
    \cup { PyDict([environment |-> PyStr(e)]) : e \in {"production", "staging", "Production"} }
    \cup { PyDict([branch |-> PyStr(b)]) : b \in {"main", "dev"} }
    \cup { EmptyDict, PyNone, PyDict([path |-> PyStr("/tmp/x")]),
           PyDict([code |-> PyNone]), PyDict([code |-> PyInt(5)]),
           PyDict([environment |-> PyNone]) }

\* the paths and the code the classifier is asked about
ClassifierPaths ==
    {PathTmpScratch, PathHomeConfig, "/tmp/x", "/home/user/important.txt",
     "/tmp", "/var/tmp/a", "./docs/a", "/TMP/x", "./execution_sandbox/run.py",
     "./assets/logo.png", "/home/tmp/x", "tmp/x", ""}

ClassifierCodes ==
    {"print('hi')", "import os\nos.system('rm -rf /')", "IMPORT OS", "x = 1",
     "print(x) for", "PRINT(1)", "print('information')", "def f(): return 1",
     "class A: pass", "print(eval('1'))", "print(EVAL('1'))",
     "while True: pass", "Return 1", ""}

\* the requests the classifier is asked about: the calls of GateCalls, every
\* path and code above, and code handed over under other operation types
ClassifierCalls ==
    GateCalls
    \cup { FileDelete(PyDict([path |-> PyStr(p)])) : p \in ClassifierPaths }
    \cup { ToolOperation("CodeExecutorTool", o, PyDict([code |-> PyStr(c)])) :
               o \in {"execute", "run", "read", "list"}, c \in ClassifierCodes }
    \cup { ToolOperation("CodeExecutorTool", "get", EmptyDict),
           ToolOperation("CodeExecutorTool", "delete", EmptyDict) }

Payloads == {PyNone}

Timestamps == 0..MaxTimestamp

(***************************************************************************)
(* State machine: the registry of the process-wide ToolConfirmationSystem, *)
(* the clock that generated operation ids read, and the record of the      *)
(* last call made on the engine.                                           *)
(***************************************************************************)
Call(op, operation_id, request, confirmed, result, consulted, raised, handler_calls) ==
    [op |-> op, operation_id |-> operation_id, request |-> request,
     confirmed |-> confirmed, result |-> result, consulted |-> consulted,
     raised |-> raised, handler_calls |-> handler_calls]

\* a call that has no request, consults nothing and returns None
PlainCall(op, operation_id) ==
    Call(op, operation_id, PyNone, FALSE, PyNone, {}, {}, <<>>)

Init ==
    /\ pending_requests = <<>>
    /\ response_handlers = <<>>
    /\ confirmation_callbacks = <<>>
    /\ last = PlainCall("init", PyNone)
    /\ state = <<>>
    /\ respond_tasks = <<>>
    /\ stored = 0

\* a direct call of request_confirmation
RequestConfirmationOf(ids, calls) ==
    \E operation_id \in ids, c \in calls,
       confirmation_type \in ConfirmationType, requires_confirmation \in BOOLEAN :
        \E r \in {request_confirmation(pending_requests, confirmation_callbacks,
                     operation_id, c.tool_name, c.operation_type, c.parameters,
                     confirmation_type, requires_confirmation)} :
            /\ pending_requests' = r.pending_requests
            /\ last' = Call("request_confirmation", operation_id, r.request,
                            FALSE, r.result, r.consulted, r.raised, <<>>)
            /\ UNCHANGED <<response_handlers, confirmation_callbacks, state, respond_tasks, stored>>

\* a call of request_destructive_confirmation, with an operation id or
\* with None, which makes the wrapper generate one from the wall clock
RequestDestructiveConfirmationOf(ids, calls) ==
    \E operation_id \in ids, c \in calls, now \in Timestamps :
        \E r \in {request_destructive_confirmation(pending_requests,
                     confirmation_callbacks, c.tool_name, c.operation_type,
                     c.parameters, operation_id, now)} :
            /\ pending_requests' = r.pending_requests
            /\ last' = Call("request_destructive_confirmation", r.request.operation_id,
                            r.request, FALSE, r.result, r.consulted, r.raised, <<>>)
            /\ UNCHANGED <<response_handlers, confirmation_callbacks, state, respond_tasks, stored>>

RequestStructuredConfirmationOf(ids, calls) ==
    \E operation_id \in ids, c \in calls, now \in Timestamps :
        \E r \in {request_structured_confirmation(pending_requests,
                     confirmation_callbacks, c.tool_name, c.operation_type,
                     c.parameters, operation_id, now)} :
            /\ pending_requests' = r.pending_requests
            /\ last' = Call("request_structured_confirmation", r.request.operation_id,
                            r.request, FALSE, r.result, r.consulted, r.raised, <<>>)
            /\ UNCHANGED <<response_handlers, confirmation_callbacks, state, respond_tasks, stored>>

RequestConfirmation == RequestConfirmationOf(OperationIds, ToolCalls)

RequestDestructiveConfirmation ==
    RequestDestructiveConfirmationOf(OperationIds \cup {PyNone}, ToolCalls)

RequestStructuredConfirmation ==
    RequestStructuredConfirmationOf(OperationIds \cup {PyNone}, ToolCalls)

\* a respond_to_confirmation that unregisters the handler of the operation
\* it answered
RespondToConfirmationForgetsHandler ==
    \E operation_id \in OperationIds \cup DOMAIN pending_requests,
       confirmed \in BOOLEAN, payload \in Payloads :
        \E r \in {respond_to_confirmation(pending_requests, response_handlers,
                                         operation_id, confirmed, payload)} :
            /\ pending_requests' = r.pending_requests
            /\ response_handlers' =
                   IF r.result = PyTrue
                   THEN [id \in DOMAIN response_handlers \ {operation_id} |->
                            response_handlers[id]]
                   ELSE response_handlers
            /\ last' = Call("respond_to_confirmation", operation_id, r.request,
                            confirmed, r.result, {}, {}, r.handler_calls)
            /\ UNCHANGED <<confirmation_callbacks, state, respond_tasks, stored>>

RespondToConfirmation ==
    \E operation_id \in OperationIds \cup DOMAIN pending_requests,
       confirmed \in BOOLEAN, payload \in Payloads :
        \E r \in {respond_to_confirmation(pending_requests, response_handlers,
                                         operation_id, confirmed, payload)} :
            /\ pending_requests' = r.pending_requests
            /\ last' = Call("respond_to_confirmation", operation_id, r.request,
                            confirmed, r.result, {}, {}, r.handler_calls)
            /\ UNCHANGED <<response_handlers, confirmation_callbacks, state, respond_tasks, stored>>

SetConfirmationCallback ==
    \E operation_id \in OperationIds, callback \in PredicateKinds :
        /\ confirmation_callbacks' =
               set_confirmation_callback(confirmation_callbacks, operation_id, callback)
        /\ last' = PlainCall("set_confirmation_callback", operation_id)
        /\ UNCHANGED <<pending_requests, response_handlers, state, respond_tasks, stored>>

SetResponseHandler ==
    \E operation_id \in OperationIds, handler \in HandlerKinds :
        /\ response_handlers' =
               set_response_handler(response_handlers, operation_id, handler)
        /\ last' = PlainCall("set_response_handler", operation_id)
        /\ UNCHANGED <<pending_requests, confirmation_callbacks, state, respond_tasks, stored>>

GetPendingConfirmations ==
    \E r \in {get_pending_confirmations(pending_requests)} :
        /\ pending_requests' = r.pending_requests
        /\ last' = Call("get_pending_confirmations", PyNone, PyNone, FALSE,
                        PyDict(r.result), {}, {}, <<>>)
        /\ UNCHANGED <<response_handlers, confirmation_callbacks, state, respond_tasks, stored>>

ClearPendingConfirmations ==
    /\ pending_requests' = clear_pending_confirmations(pending_requests)
    /\ last' = PlainCall("clear_pending_confirmations", PyNone)
    /\ UNCHANGED <<response_handlers, confirmation_callbacks, state, respond_tasks, stored>>

Next ==
    \/ RequestConfirmation
    \/ RequestDestructiveConfirmation
    \/ RequestStructuredConfirmation
    \/ RespondToConfirmation
    \/ SetConfirmationCallback
    \/ SetResponseHandler
    \/ GetPendingConfirmations
    \/ ClearPendingConfirmations

Spec == Init /\ [][Next]_vars

(***************************************************************************)
(* The gate alone: the same engine, called under one operation id with     *)
(* the calls of GateCalls, to explore the decision of request_confirmation *)
(* and of the wrappers over every rule of the classifier.                  *)
(***************************************************************************)
GateRequestConfirmation == RequestConfirmationOf({Op1}, GateCalls)

GateRequestDestructiveConfirmation ==
    RequestDestructiveConfirmationOf({Op1}, GateCalls)

GateRequestStructuredConfirmation ==
    RequestStructuredConfirmationOf({Op1}, GateCalls)

GateNext ==
    \/ GateRequestConfirmation
    \/ GateRequestDestructiveConfirmation
    \/ GateRequestStructuredConfirmation
    \/ SetConfirmationCallback
    \/ SetResponseHandler

GateSpec == Init /\ [][GateNext]_vars

(***************************************************************************)
(* The policy and the classifier, called directly as the tools call them   *)
(* before they turn to the gate, next to calls that change the registry.   *)
(***************************************************************************)
\* the record of a direct call of a function that reads no registry: what
\* it was asked, what it answered, and whether it raised
PureCall(op, request, result, consulted) ==
    Call(op, PyNone, request, FALSE, result, {consulted},
         IF result = Raise THEN {consulted} ELSE {}, <<>>)

ShouldRequireConfirmation ==
    \E operation_type \in PolicyOperationTypes, parameters \in PolicyParameters :
        /\ last' = PureCall("should_require_confirmation",
                            [operation_type |-> operation_type, parameters |-> parameters],
                            should_require_confirmation(operation_type, parameters), "policy")
        /\ UNCHANGED <<pending_requests, response_handlers, confirmation_callbacks, state, respond_tasks, stored>>

\* the request a classifier call is made with
ClassifierRequest(c) ==
    ConfirmationRequest(Op1, c.tool_name, c.operation_type, c.parameters, BOOLEAN_TYPE, TRUE)

IsSafeOperation ==
    \E c \in ClassifierCalls :
        /\ last' = PureCall("_is_safe_operation", ClassifierRequest(c),
                            _is_safe_operation(ClassifierRequest(c)), "classifier")
        /\ UNCHANGED <<pending_requests, response_handlers, confirmation_callbacks, state, respond_tasks, stored>>

IsSafeCode ==
    \E code \in {PyStr(c) : c \in ClassifierCodes} \cup {PyNone, PyInt(5)} :
        /\ last' = PureCall("_is_safe_code", [code |-> code], _is_safe_code(code), "classifier")
        /\ UNCHANGED <<pending_requests, response_handlers, confirmation_callbacks, state, respond_tasks, stored>>

IsSafePath ==
    \E path \in {PyStr(p) : p \in ClassifierPaths} \cup {PyNone, PyInt(5)} :
        /\ last' = PureCall("_is_safe_path", [path |-> path], _is_safe_path(path), "classifier")
        /\ UNCHANGED <<pending_requests, response_handlers, confirmation_callbacks, state, respond_tasks, stored>>

PolicyRequestDestructiveConfirmation ==
    RequestDestructiveConfirmationOf({Op1}, ToolCalls)

PolicyNext ==
    \/ ShouldRequireConfirmation
    \/ IsSafeOperation
    \/ IsSafeCode
    \/ IsSafePath
    \/ PolicyRequestDestructiveConfirmation
    \/ ClearPendingConfirmations

PolicySpec == Init /\ [][PolicyNext]_vars

(***************************************************************************)
(* The callbacks, as the agent runtime invokes them on one session.        *)
(***************************************************************************)
AgentNames == {"TestAgent", "FrontendAgent"}

\* inputs of 10000 and 10001 characters, with and without a keyword
UserInputTexts ==
    {"Create a simple web page", "", "   ", " \n\t",
     "How to hack a website?", "Reset my PASSWORD", "Tokenize this sentence", "sudo hack",
     Filler(MAX_REQUEST_LENGTH), Filler(MAX_REQUEST_LENGTH + 1),
     Filler(MAX_REQUEST_LENGTH - 4) \o "hack", Filler(MAX_REQUEST_LENGTH - 3) \o "hack"}

UserInputs == {PyStr(s) : s \in UserInputTexts} \cup {PyNone, PyInt(5)}

CallbackToolNames == {"file_writer", "delete_files", "execute_code"}

CallbackToolArgs ==
    {EmptyDict,
     PyDict([file_path |-> PyStr("/tmp/test.txt"), content |-> PyStr("Hello World")]),
     PyDict([path |-> PyStr("/etc/passwd")]),
     PyNone}

\* the record of a callback: what it was given (the state mapping of its
\* context among it) and what it returned
CallbackCall(op, request, outcome, consulted) ==
    Call(op, PyNone, request, FALSE, outcome.result, consulted, outcome.raised, <<>>)

BeforeAgentCallbackOf(context, agent_name, user_input, outcome) ==
    /\ security_violations(outcome.state).n <= MaxViolations
    /\ state' = outcome.state
    /\ last' = CallbackCall("before_agent_callback",
                            [callback_context |-> context, agent_name |-> agent_name,
                             user_input |-> user_input],
                            outcome, {"_check_security_policy"})
    /\ UNCHANGED <<pending_requests, response_handlers, confirmation_callbacks,
                   respond_tasks, stored>>

BeforeAgentCallback ==
    \E agent_name \in AgentNames, user_input \in UserInputs :
        BeforeAgentCallbackOf(state, agent_name, user_input,
                              before_agent_callback(state, agent_name, user_input))

BeforeToolCallbackOf(tool_name, tool_args, outcome) ==
    /\ last' = Call("before_tool_callback", PyNone,
                    [tool_name |-> tool_name, tool_args |-> tool_args],
                    FALSE, outcome.result, outcome.consulted, {}, <<>>)
    /\ UNCHANGED <<pending_requests, response_handlers, confirmation_callbacks, state, respond_tasks, stored>>

BeforeToolCallback ==
    \E tool_name \in CallbackToolNames, tool_args \in CallbackToolArgs :
        BeforeToolCallbackOf(tool_name, tool_args,
                             before_tool_callback(state, tool_name, tool_args))

CallbackNext ==
    \/ BeforeAgentCallback
    \/ BeforeToolCallback

CallbackSpec == Init /\ [][CallbackNext]_vars

(***************************************************************************)
(* CodeExecutorTool.execute_python_code: the policy decides whether the    *)
(* gate is asked, the gate decides whether the script is written and the   *)
(* interpreter started.  What the interpreter and the file system do is    *)
(* the environment's choice.                                               *)
(***************************************************************************)
default_timeout == 30

max_timeout == 300

Digit(d) ==
    CASE d = 0 -> "0" [] d = 1 -> "1" [] d = 2 -> "2" [] d = 3 -> "3" [] d = 4 -> "4"
      [] d = 5 -> "5" [] d = 6 -> "6" [] d = 7 -> "7" [] d = 8 -> "8" [] d = 9 -> "9"

\* the decimal text an f-string gives a non-negative int
RECURSIVE Decimal(_)
Decimal(n) == IF n < 10 THEN Digit(n) ELSE Decimal(n \div 10) \o Digit(n % 10)

\* code of more than 200 characters that the classifier approves
LongSafeCode == "print('" \o Filler(200) \o "')"

\* code[:100] of the code the calls of the model carry
Head100(s) ==
    CASE Len(s) <= 100 -> s
      [] s = Filler(Len(s)) -> Filler(100)
      [] s = LongSafeCode -> "print('" \o Filler(93)

\* code[:100] + "..." if len(code) > 100 else code
code_preview(code) ==
    IF Len(code.s) > 100 THEN PyStr(Head100(code.s) \o "...") ELSE code

\* timeout or self.default_timeout
timeout_or_default(timeout) ==
    IF timeout = PyNone \/ timeout = PyInt(0) THEN PyInt(default_timeout) ELSE timeout

\* str(e) of the TypeError that len() raises on a value without a length
len_error_text(v) ==
    CASE v.py = "None" -> "object of type 'NoneType' has no len()"
      [] v.py = "int" -> "object of type 'int' has no len()"
      [] v.py = "bool" -> "object of type 'bool' has no len()"

\* str(datetime.now()): the text of the clock reading
DatetimeStr(now) == [py |-> "str", datetime |-> now]

\* the outer `except Exception as e` of execute_python_code
execution_error(text) ==
    PyDict([success |-> PyFalse, error |-> PyStr(text), language |-> PyStr("python")])

execution_cancelled ==
    PyDict([success |-> PyFalse, error |-> PyStr("Code execution cancelled by user"),
            language |-> PyStr("python"), cancelled |-> PyTrue])

execution_timed_out(timeout) ==
    PyDict([success |-> PyFalse,
            error |-> PyStr("Execution timed out after " \o Decimal(timeout.n) \o " seconds"),
            language |-> PyStr("python"), timeout |-> timeout])

execution_result(outcome, timeout) ==
    PyDict([success |-> PyBool(outcome.returncode = 0),
            return_code |-> PyInt(outcome.returncode),
            stdout |-> PyStr(outcome.stdout), stderr |-> PyStr(outcome.stderr),
            execution_time |-> timeout, language |-> PyStr("python")])

\* context.state['temp:last_execution'] = result
\* context.state['temp:last_execution_time'] = str(datetime.now())
record_execution(context, result, now) ==
    [k \in DOMAIN context \cup {"temp:last_execution", "temp:last_execution_time"} |->
        IF k = "temp:last_execution" THEN result
        ELSE IF k = "temp:last_execution_time" THEN DatetimeStr(now)
        ELSE context[k]]

\* what the file system and the interpreter do with the script: the
\* temporary file cannot be written, the interpreter cannot be started, it
\* exits with a return code, or it outlives min(timeout, max_timeout)
Exited(returncode, stdout, stderr) ==
    [kind |-> "exited", returncode |-> returncode, stdout |-> stdout, stderr |-> stderr]

TimedOut == [kind |-> "timed_out"]

Failed(kind, text) == [kind |-> kind, text |-> text]

\* lines 99-149: the script is written, the interpreter started and waited
\* for, the result stored in the context state when it ended in time
run_script(context, timeout, now, outcome) ==
    IF outcome.kind = "tempfile_fails"
    THEN [state |-> context, result |-> execution_error(outcome.text),
          written |-> FALSE, spawned |-> FALSE, waited |-> PyNone]
    ELSE IF outcome.kind = "spawn_fails"
    THEN [state |-> context, result |-> execution_error(outcome.text),
          written |-> TRUE, spawned |-> FALSE, waited |-> PyNone]
    ELSE IF outcome.kind = "timed_out"
    THEN [state |-> context, result |-> execution_timed_out(timeout),
          written |-> TRUE, spawned |-> TRUE,
          waited |-> PyInt(IF timeout.n < max_timeout THEN timeout.n ELSE max_timeout)]
    ELSE [state |-> record_execution(context, execution_result(outcome, timeout), now),
          result |-> execution_result(outcome, timeout),
          written |-> TRUE, spawned |-> TRUE,
          waited |-> PyInt(IF timeout.n < max_timeout THEN timeout.n ELSE max_timeout)]

\* a tool that runs the code whatever the gate answered
proceeds_after_gate_always(confirmed) == TRUE

\* `if not confirmed: return {... "cancelled": True}`
proceeds_after_gate(confirmed) == Truthy(confirmed)

\* the parameters handed to the gate
execute_parameters(code, timeout) ==
    PyDict([code |-> code, language |-> PyStr("python"), timeout |-> timeout,
            code_preview |-> code_preview(code)])

\* the policy's answer and the gate's: the registry after the gate stored
\* the request, and what it returned
gate_decision(requires_confirmation, gate) ==
    [policy |-> requires_confirmation, consulted |-> {"policy", "gate"},
     pending_requests |-> gate.pending_requests, confirmed |-> gate.result]

\* lines 73-89 with the policy's answer handed in: the gate is asked when
\* the policy requires it (confirmed is None when it was not asked)
consult_gate_with(pending, callbacks, code, timeout, timestamp, requires_confirmation) ==
    IF requires_confirmation = PyTrue
    THEN gate_decision(requires_confirmation,
             request_destructive_confirmation(pending, callbacks, "CodeExecutorTool",
                 "execute", execute_parameters(code, timeout), PyNone, timestamp))
    ELSE [policy |-> requires_confirmation, consulted |-> {"policy"},
          pending_requests |-> pending, confirmed |-> PyNone]

\* lines 73-89: should_require_confirmation, then the gate
consult_gate(pending, callbacks, code, timeout, timestamp) ==
    consult_gate_with(pending, callbacks, code, timeout, timestamp,
        should_require_confirmation("execute_code",
            PyDict([code |-> code, language |-> PyStr("python"), timeout |-> timeout])))

\* the call ends before anything is written or started
ends_early(decision, context, result) ==
    [pending_requests |-> decision.pending_requests, state |-> context,
     result |-> result, consulted |-> decision.consulted,
     policy |-> decision.policy, confirmed |-> decision.confirmed,
     written |-> FALSE, spawned |-> FALSE, waited |-> PyNone]

\* lines 91-157: an exception raised so far is turned into an error
\* mapping, a gate that did not approve into the cancelled mapping, and
\* the script is run otherwise
execute_decided(context, code, timeout, now, outcome, decision) ==
    IF decision.policy = Raise
    THEN ends_early(decision, context, execution_error(len_error_text(code)))
    ELSE IF decision.confirmed = Raise
    THEN ends_early(decision, context, execution_error("confirmation failed"))
    ELSE IF decision.policy = PyTrue /\ ~proceeds_after_gate(decision.confirmed)
    THEN ends_early(decision, context, execution_cancelled)
    ELSE [pending_requests |-> decision.pending_requests,
          consulted |-> decision.consulted,
          policy |-> decision.policy, confirmed |-> decision.confirmed]
         @@ run_script(context, timeout, now, outcome)

\* execute_python_code: the registry and the context state after the call,
\* the mapping returned, who was consulted, the answers of the policy and
\* of the gate, and whether the script was written and the interpreter
\* started
execute_python_code(pending, callbacks, context, code, timeout, timestamp, now, outcome) ==
    execute_decided(context, code, timeout_or_default(timeout), now, outcome,
        consult_gate(pending, callbacks, code, timeout_or_default(timeout), timestamp))

\* the code of the calls: short and harmless, short and dangerous, 200 and
\* 201 characters that the classifier refuses, more than 200 that it
\* approves, and no code at all
ExecutorCodes ==
    {PyStr(c) : c \in {"print('hi')", "import os\nos.system('rm -rf /')",
                       Filler(200), Filler(201), LongSafeCode}}
    \cup {PyNone}

\* every code under the default timeout, and the short script under a
\* timeout of 0 and under one above max_timeout
ExecutorCalls ==
    {[code |-> code, timeout |-> PyNone] : code \in ExecutorCodes}
    \cup {[code |-> PyStr("print('hi')"), timeout |-> timeout] :
              timeout \in {PyInt(0), PyInt(400)}}

ScriptOutcomes ==
    {Exited(0, "", ""), Exited(1, "", "Traceback (most recent call last):"), TimedOut,
     Failed("tempfile_fails", "[Errno 28] No space left on device"),
     Failed("spawn_fails", "[Errno 2] No such file or directory: 'python3'")}

ExecutePythonCodeOf(code, timeout, outcome, r) ==
    /\ pending_requests' = r.pending_requests
    /\ state' = r.state
    /\ last' = [op |-> "execute_python_code", operation_id |-> PyNone,
                request |-> [code |-> code, timeout |-> timeout, outcome |-> outcome],
                policy |-> r.policy, confirmed |-> r.confirmed, result |-> r.result,
                consulted |-> r.consulted, raised |-> {}, handler_calls |-> <<>>,
                written |-> r.written, spawned |-> r.spawned, waited |-> r.waited]
    /\ UNCHANGED <<response_handlers, confirmation_callbacks, respond_tasks, stored>>

\* the call from the gate's answer on: the environment's part
ExecutePythonCodeDecided(code, timeout, timestamp, decision) ==
    \E outcome \in ScriptOutcomes, now \in Timestamps :
        /\ timestamp <= now
        /\ ExecutePythonCodeOf(code, timeout, outcome,
               execute_decided(state, code, timeout_or_default(timeout), now, outcome,
                               decision))

ExecutePythonCode ==
    \E c \in ExecutorCalls, timestamp \in Timestamps :
        ExecutePythonCodeDecided(c.code, c.timeout, timestamp,
            consult_gate(pending_requests, confirmation_callbacks, c.code,
                         timeout_or_default(c.timeout), timestamp))

ExecutorNext ==
    \/ ExecutePythonCode
    \/ ClearPendingConfirmations

ExecutorSpec == Init /\ [][ExecutorNext]_vars

(***************************************************************************)
(* The engine under the event loop: respond_to_confirmation is a coroutine *)
(* that is suspended while it awaits the registered handler, and other     *)
(* calls on the engine run in between.  respond_tasks holds, per caller,   *)
(* the respond_to_confirmation it started: its arguments, the request it   *)
(* read, the handler it awaits and, once it ended, what it returned.       *)
(* stored counts the requests stored so far; a task keeps the count it     *)
(* found, which tells the pending requests under one id apart.             *)
(***************************************************************************)
Responders == {"r1", "r2"}

\* the requests made meanwhile, all of which require confirmation: a
\* deletion the classifier approves and one it denies
RuntimeCalls ==
    {FileDelete(PyDict([path |-> PyStr(PathTmpScratch)])),
     FileDelete(PyDict([path |-> PyStr(PathHomeConfig)]))}

\* the task of a call that ended before any await
EndedTask(operation_id, confirmed, r, serial) ==
    [operation_id |-> operation_id, confirmed |-> confirmed, request |-> r.request,
     handler |-> "none", serial |-> serial, pc |-> "returned", result |-> r.result]

\* the task of a call suspended in the handler
SuspendedTask(operation_id, confirmed, r, serial) ==
    [operation_id |-> operation_id, confirmed |-> confirmed, request |-> r.request,
     handler |-> r.awaiting, serial |-> serial, pc |-> "awaiting_handler",
     result |-> PyNone]

WithTask(tasks, c, task) ==
    [x \in DOMAIN tasks \cup {c} |-> IF x = c THEN task ELSE tasks[x]]

RuntimeRequestConfirmationOf(operation_id, r) ==
    /\ stored < MaxStored
    /\ stored' = stored + 1
    /\ pending_requests' = r.pending_requests
    /\ last' = Call("request_confirmation", operation_id, r.request,
                    FALSE, r.result, r.consulted, r.raised, <<>>)
    /\ UNCHANGED <<response_handlers, confirmation_callbacks, state, respond_tasks>>

\* request_confirmation, called while responses may be suspended
RuntimeRequestConfirmation ==
    \E operation_id \in OperationIds, c \in RuntimeCalls,
       confirmation_type \in ConfirmationType, requires_confirmation \in {TRUE} :
        RuntimeRequestConfirmationOf(operation_id,
            request_confirmation(pending_requests, confirmation_callbacks,
                operation_id, c.tool_name, c.operation_type, c.parameters,
                confirmation_type, requires_confirmation))

RespondStartOf(c, operation_id, confirmed, r) ==
    /\ pending_requests' = r.pending_requests
    /\ respond_tasks' =
           WithTask(respond_tasks, c,
                    IF r.awaiting = "none"
                    THEN EndedTask(operation_id, confirmed, r, stored)
                    ELSE SuspendedTask(operation_id, confirmed, r, stored))
    /\ last' = Call(IF r.awaiting = "none" THEN "respond_to_confirmation"
                    ELSE "respond_to_confirmation_suspended",
                    operation_id, r.request, confirmed, r.result, {}, {}, r.handler_calls)
    /\ UNCHANGED <<response_handlers, confirmation_callbacks, state, stored>>

\* a caller starts respond_to_confirmation: it runs to its return, or to
\* the await of the handler
RespondStart ==
    \E c \in Responders \ DOMAIN respond_tasks,
       operation_id \in OperationIds, confirmed \in BOOLEAN, payload \in Payloads :
        RespondStartOf(c, operation_id, confirmed,
            respond_until_await(pending_requests, response_handlers,
                                operation_id, confirmed, payload))

RespondResumeOf(c, task, r) ==
    /\ pending_requests' = r.pending_requests
    /\ respond_tasks' =
           WithTask(respond_tasks, c, [task EXCEPT !.pc = "returned", !.result = r.result])
    /\ last' = Call("respond_to_confirmation_resumed", task.operation_id, task.request,
                    task.confirmed, r.result, {},
                    IF r.result = Raise THEN {"respond_to_confirmation"} ELSE {}, <<>>)
    /\ UNCHANGED <<response_handlers, confirmation_callbacks, state, stored>>

\* the handler a call awaits ends, and the call runs to its return
RespondResume ==
    \E c \in DOMAIN respond_tasks :
        /\ respond_tasks[c].pc = "awaiting_handler"
        /\ RespondResumeOf(c, respond_tasks[c],
               respond_after_await(pending_requests, respond_tasks[c].operation_id,
                   respond_tasks[c].handler,
                   ConfirmationResponse(respond_tasks[c].operation_id,
                                        respond_tasks[c].confirmed, PyNone)))

RuntimeNext ==
    \/ RuntimeRequestConfirmation
    \/ RespondStart
    \/ RespondResume
    \/ SetResponseHandler
    \/ ClearPendingConfirmations

RuntimeSpec == Init /\ [][RuntimeNext]_vars

(***************************************************************************)
(* Properties.                                                             *)
(***************************************************************************)
RequestOps ==
    {"request_confirmation", "request_destructive_confirmation",
     "request_structured_confirmation"}

IsRequestCall(c) == c.op \in RequestOps

SafePathParameters == PyDict([path |-> PyStr(PathTmpScratch)])

UnsafePathParameters == PyDict([path |-> PyStr(PathHomeConfig)])

\* the BOOLEAN decision for a request: True exactly when the classifier
\* answers True, False when it answers False or raises
BooleanDecision(request) ==
    IF _is_safe_operation(request) = PyTrue THEN PyTrue ELSE PyFalse

\* the values by which request_confirmation approves a request
ApprovingValues == {PyTrue, PyDict([auto_approved |-> PyTrue])}

\* C1: request_destructive_confirmation returns true exactly when
\* is_safe_operation classifies the request as safe and false otherwise:
\* FileSystemTool/delete of /home/user/config.json is denied, of
\* /tmp/scratch.txt is approved.
C1_DestructiveApprovesIffSafe ==
    last.op = "request_destructive_confirmation" =>
        /\ last.request.confirmation_type = BOOLEAN_TYPE
        /\ last.request.requires_confirmation
        /\ last.result = BooleanDecision(last.request)
        /\ last.result \in {PyTrue, PyFalse}
        /\ (/\ last.request.tool_name = "FileSystemTool"
            /\ last.request.operation_type = "delete"
            /\ last.request.parameters = UnsafePathParameters) => last.result = PyFalse
        /\ (/\ last.request.tool_name = "FileSystemTool"
            /\ last.request.operation_type = "delete"
            /\ last.request.parameters = SafePathParameters) => last.result = PyTrue

C1_Witness ==
    /\ last.op = "request_destructive_confirmation"
    /\ last.request.parameters = SafePathParameters
    /\ last.request.tool_name = "FileSystemTool"
    /\ last.request.operation_type = "delete"
    /\ last.result = PyTrue

\* C2: request_confirmation never raises: whatever the confirmation type,
\* the requires_confirmation flag, the parameters (malformed ones included)
\* and the registered predicate (a raising one included), the call returns
\* a value.
C2_RequestNeverRaises ==
    IsRequestCall(last) => last.result # Raise

C2_Witness ==
    /\ last.op = "request_confirmation"
    /\ last.request.confirmation_type = CONDITIONAL_TYPE
    /\ last.request.parameters = PyNone
    /\ last.raised = {"classifier", "predicate"}
    /\ last.result = PyFalse

C4_AutoApprovedNotPending ==
    (IsRequestCall(last) /\ ~last.request.requires_confirmation)
        => last.operation_id \notin DOMAIN pending_requests

\* C5: with requires_confirmation=false request_confirmation returns the
\* default of the type, True for BOOLEAN and {"auto_approved": True} for
\* STRUCTURED, and consults neither the safety classifier nor a conditional
\* predicate nor a response handler.
C5_NotRequiredReturnsDefault ==
    (IsRequestCall(last) /\ ~last.request.requires_confirmation) =>
        /\ last.consulted = {}
        /\ last.raised = {}
        /\ last.handler_calls = <<>>
        /\ last.request.confirmation_type = BOOLEAN_TYPE => last.result = PyTrue
        /\ last.request.confirmation_type = STRUCTURED_TYPE
               => last.result = PyDict([auto_approved |-> PyTrue])

C5_Witness ==
    /\ last.op = "request_confirmation"
    /\ ~last.request.requires_confirmation
    /\ last.request.confirmation_type = STRUCTURED_TYPE
    /\ last.request.parameters = PyNone
    /\ last.operation_id \in DOMAIN confirmation_callbacks
    /\ last.operation_id \in DOMAIN response_handlers
    /\ last.result = PyDict([auto_approved |-> PyTrue])

\* C6: for every confirmation type, CONDITIONAL included, a request with
\* requires_confirmation=false is answered by an approving value, never by
\* a denial or None.
C6_NotRequiredAlwaysApproved ==
    (IsRequestCall(last) /\ ~last.request.requires_confirmation)
        => last.result \in ApprovingValues

RegistryUnchanged ==
    /\ pending_requests' = pending_requests
    /\ response_handlers' = response_handlers
    /\ confirmation_callbacks' = confirmation_callbacks

\* C7: respond_to_confirmation for an operation_id that is not pending
\* returns False, invokes no handler (even when one is registered under the
\* id) and leaves pending_requests, response_handlers and
\* confirmation_callbacks unchanged.
C7_RespondUnknownIsNoOp ==
    [][(/\ last'.op = "respond_to_confirmation"
        /\ last'.operation_id \notin DOMAIN pending_requests)
       => (/\ last'.result = PyFalse
           /\ last'.handler_calls = <<>>
           /\ RegistryUnchanged)]_vars

C7_Witness ==
    /\ last.op = "respond_to_confirmation"
    /\ last.operation_id \notin DOMAIN pending_requests
    /\ last.operation_id \in DOMAIN response_handlers
    /\ last.request = PyNone
    /\ last.result = PyFalse
    /\ last.handler_calls = <<>>
    /\ pending_requests # <<>>

\* C8: respond_to_confirmation for a pending operation_id whose handler is
\* absent or completes normally invokes the registered handler (if any)
\* exactly once with a response carrying the operation_id and the confirmed
\* value, removes exactly that operation_id from pending_requests, leaves
\* every other pending entry as it was, and returns True.
C8_RespondPendingResolves ==
    [][(/\ last'.op = "respond_to_confirmation"
        /\ last'.operation_id \in DOMAIN pending_requests
        /\ (last'.operation_id \in DOMAIN response_handlers
               => response_handlers[last'.operation_id] = "completes"))
       => (/\ last'.result = PyTrue
           /\ DOMAIN pending_requests' = DOMAIN pending_requests \ {last'.operation_id}
           /\ \A id \in DOMAIN pending_requests' :
                  pending_requests'[id] = pending_requests[id]
           /\ Len(last'.handler_calls) =
                  (IF last'.operation_id \in DOMAIN response_handlers THEN 1 ELSE 0)
           /\ \A i \in DOMAIN last'.handler_calls :
                  /\ last'.handler_calls[i].operation_id = last'.operation_id
                  /\ last'.handler_calls[i].confirmed = last'.confirmed
           /\ response_handlers' = response_handlers
           /\ confirmation_callbacks' = confirmation_callbacks)]_vars

C8_Witness ==
    /\ last.op = "respond_to_confirmation"
    /\ last.result = PyTrue
    /\ last.confirmed
    /\ last.request # PyNone
    /\ last.request.confirmation_type = STRUCTURED_TYPE
    /\ last.request.requires_confirmation
    /\ Len(last.handler_calls) = 1
    /\ last.operation_id \notin DOMAIN pending_requests
    /\ pending_requests # <<>>

\* C9: when the registered response handler raises during
\* respond_to_confirmation, the exception is caught, the call returns False
\* and the pending entry stays: pending_requests is unchanged by the call.
C9_HandlerFailureKeepsPending ==
    [][(/\ last'.op = "respond_to_confirmation"
        /\ last'.operation_id \in DOMAIN pending_requests
        /\ last'.operation_id \in DOMAIN response_handlers
        /\ response_handlers[last'.operation_id] = "raises")
       => (/\ last'.result = PyFalse
           /\ Len(last'.handler_calls) = 1
           /\ RegistryUnchanged)]_vars

C9_Witness ==
    /\ last.op = "respond_to_confirmation"
    /\ last.operation_id \in DOMAIN pending_requests
    /\ last.operation_id \in DOMAIN response_handlers
    /\ response_handlers[last.operation_id] = "raises"
    /\ Len(last.handler_calls) = 1
    /\ last.result = PyFalse

\* C10: get_pending_confirmations does not mutate the registry: every call
\* returns the current pending mapping and leaves pending_requests,
\* response_handlers and confirmation_callbacks as they were.
C10_GetPendingIsReadOnly ==
    [][last'.op = "get_pending_confirmations"
       => (/\ last'.result = PyDict(pending_requests)
           /\ RegistryUnchanged)]_vars

C10_Witness ==
    /\ last.op = "get_pending_confirmations"
    /\ last.result = PyDict(pending_requests)
    /\ Cardinality(DOMAIN pending_requests) = 2
    /\ response_handlers # <<>>
    /\ confirmation_callbacks # <<>>

\* the parameter bags whose code has a length in characters: a mapping
\* whose "code" is a str or is absent
HasCodeText(parameters) ==
    /\ IsDict(parameters)
    /\ ("code" \in DOMAIN parameters.d => IsStr(parameters.d["code"]))

\* the operation types of the model that spell a name of the safe set of the
\* policy in some mix of upper and lower case
SafeSpelledTypes ==
    {"read", "list", "get", "view", "show", "status", "info", "READ", "Info"}

\* C11: for every operation_type in {read, list, get, view, show, status,
\* info}, in any mix of upper and lower case, and any parameters (a bag that
\* is not a mapping included), should_require_confirmation returns false.
C11_SafeTypesNeverRequire ==
    (/\ last.op = "should_require_confirmation"
     /\ last.request.operation_type \in SafeSpelledTypes) => last.result = PyFalse

C11_Witness ==
    /\ last.op = "should_require_confirmation"
    /\ last.request.operation_type = "READ"
    /\ last.request.parameters = PyDict([code |-> PyStr(Filler(201))])
    /\ last.result = PyFalse

\* C12: for operation_type "execute_code" or "execute" and code given as
\* text, should_require_confirmation returns true exactly when the code is
\* longer than 200 characters: 200 characters give false, 201 give true, and
\* absent code gives false.
C12_CodeLengthThreshold ==
    (/\ last.op = "should_require_confirmation"
     /\ last.request.operation_type \in {"execute_code", "execute"}
     /\ HasCodeText(last.request.parameters)) =>
        LET d == last.request.parameters.d
        IN  /\ "code" \notin DOMAIN d => last.result = PyFalse
            /\ "code" \in DOMAIN d =>
                   /\ last.result = PyBool(Len(d["code"].s) > 200)
                   /\ Len(d["code"].s) = 200 => last.result = PyFalse
                   /\ Len(d["code"].s) = 201 => last.result = PyTrue

C12_Witness ==
    /\ last.op = "should_require_confirmation"
    /\ last.request.operation_type = "execute_code"
    /\ last.request.parameters = PyDict([code |-> PyStr(Filler(201))])
    /\ last.result = PyTrue

\* the operation types of the model that spell a name of the destructive
\* set of the policy in some mix of upper and lower case
DestructiveSpelledTypes ==
    {"delete", "remove", "rm", "copy_overwrite", "overwrite", "replace", "run",
     "DELETE", "Remove"}

\* the value of a key of a parameter bag, None when the key is absent
ParameterOrNone(parameters, key) ==
    IF key \in DOMAIN parameters.d THEN parameters.d[key] ELSE PyNone

\* the rule table of the policy, first match wins
PolicyReference(operation_type, parameters) ==
    IF operation_type = "delete_files" THEN TRUE
    ELSE IF operation_type \in {"execute_code", "execute"} THEN
        /\ "code" \in DOMAIN parameters.d
        /\ Len(parameters.d["code"].s) > 200
    ELSE IF operation_type = "deploy" THEN
        ParameterOrNone(parameters, "environment") = PyStr("production")
    ELSE IF operation_type = "delete_branch" THEN
        ParameterOrNone(parameters, "branch") = PyStr("main")
    ELSE IF operation_type \in DestructiveSpelledTypes THEN TRUE
    ELSE IF operation_type \in SafeSpelledTypes THEN FALSE
    ELSE TRUE

\* the inputs on which the rule table has a value: the rules that read a key
\* need a mapping, and the length rule needs code that is text or absent
PolicyReferenceDefined(operation_type, parameters) ==
    /\ operation_type \in {"execute_code", "execute"} => HasCodeText(parameters)
    /\ operation_type \in {"deploy", "delete_branch"} => IsDict(parameters)

\* C19: should_require_confirmation is a pure first-match-wins rule table:
\* every call returns the value of the reference table (delete_files, the
\* code length, deploy to production, delete_branch of main, the destructive
\* set, the safe set, and true for any other type), and leaves
\* pending_requests, response_handlers and confirmation_callbacks as they
\* were.
C19_PolicyIsPureRuleTable ==
    [][last'.op = "should_require_confirmation"
       => (/\ RegistryUnchanged
           /\ PolicyReferenceDefined(last'.request.operation_type, last'.request.parameters)
                  => last'.result = PyBool(PolicyReference(last'.request.operation_type,
                                                          last'.request.parameters)))]_vars

C19_Witness ==
    /\ last.op = "should_require_confirmation"
    /\ last.request.operation_type = "deploy"
    /\ last.request.parameters = PyDict([environment |-> PyStr("production")])
    /\ last.result = PyTrue
    /\ pending_requests # <<>>

\* the parameter bags whose key is text or absent
HasText(parameters, key) ==
    /\ IsDict(parameters)
    /\ (key \in DOMAIN parameters.d => IsStr(parameters.d[key]))

\* the text under a key of a parameter bag, the empty text when absent
TextOf(parameters, key) ==
    IF key \in DOMAIN parameters.d THEN parameters.d[key].s ELSE ""

\* the paths of the model that start with /tmp/, /var/tmp/,
\* ./execution_sandbox/, ./assets/ or ./docs/
AllowListedPaths ==
    {"/tmp/scratch.txt", "/tmp/x", "/var/tmp/a", "./docs/a",
     "./execution_sandbox/run.py", "./assets/logo.png"}

\* C13: for a request of FileSystemTool with operation_type delete,
\* is_safe_operation returns true exactly when parameters.path starts with
\* one of the allow-list prefixes: /tmp/x is safe, /home/user/important.txt
\* is not, and an absent path is not.
C13_DeleteSafeIffAllowListed ==
    (/\ last.op = "_is_safe_operation"
     /\ last.request.tool_name = "FileSystemTool"
     /\ last.request.operation_type = "delete"
     /\ HasText(last.request.parameters, "path")) =>
        /\ last.result = PyBool(TextOf(last.request.parameters, "path") \in AllowListedPaths)
        /\ TextOf(last.request.parameters, "path") = "/tmp/x" => last.result = PyTrue
        /\ TextOf(last.request.parameters, "path") = "/home/user/important.txt"
               => last.result = PyFalse
        /\ "path" \notin DOMAIN last.request.parameters.d => last.result = PyFalse

C13_Witness ==
    /\ last.op = "_is_safe_operation"
    /\ last.request.tool_name = "FileSystemTool"
    /\ last.request.operation_type = "delete"
    /\ last.request.parameters = PyDict([path |-> PyStr("/tmp/x")])
    /\ last.result = PyTrue

\* the code of the model that passes the safe-code heuristic: none of the
\* dangerous substrings in any case, a benign marker, no control-flow token
HeuristicSafeCodes == {"print('hi')", "def f(): return 1", "class A: pass"}

\* C14 as claimed: for every request of CodeExecutorTool, whatever its
\* operation_type, is_safe_operation returns true exactly when
\* parameters.code passes the safe-code heuristic.
C14_Original_CodeToolIffHeuristic ==
    (/\ last.op = "_is_safe_operation"
     /\ last.request.tool_name = "CodeExecutorTool"
     /\ HasText(last.request.parameters, "code")) =>
        last.result = PyBool(TextOf(last.request.parameters, "code") \in HeuristicSafeCodes)

\* C14: for a request of CodeExecutorTool, is_safe_operation returns true
\* when the operation_type is read, list, get or view, whatever the code,
\* and for every other operation_type exactly when parameters.code passes
\* the safe-code heuristic.
C14_CodeToolIffHeuristicUnlessRead ==
    (/\ last.op = "_is_safe_operation"
     /\ last.request.tool_name = "CodeExecutorTool") =>
        IF last.request.operation_type \in {"read", "list", "get", "view"}
        THEN last.result = PyTrue
        ELSE HasText(last.request.parameters, "code") =>
                 last.result = PyBool(TextOf(last.request.parameters, "code")
                                          \in HeuristicSafeCodes)

C14_Witness ==
    /\ last.op = "_is_safe_operation"
    /\ last.request.tool_name = "CodeExecutorTool"
    /\ last.request.operation_type = "read"
    /\ last.request.parameters = PyDict([code |-> PyStr("import os\nos.system('rm -rf /')")])
    /\ last.result = PyTrue

\* the three conditions of the safe-code heuristic on the characters of code
HasDangerousSubstring(code) ==
    \E i \in DOMAIN dangerous_keywords : Contains(Lower(code), Lower(dangerous_keywords[i]))

HasBenignMarker(code) ==
    \E marker \in {S_print, S_return, S_def, S_class} : Contains(code, marker)

HasControlFlowToken(code) ==
    \E token \in {X_for, X_while, X_if, X_try} : Contains(code, token)

\* C20: the safe-code heuristic classifies code as safe exactly when it
\* contains none of the 14 dangerous substrings in any case, contains a
\* benign marker (print(, return, "def ", "class ") as spelled, and contains
\* none of for, while, if, try; everything else, the empty string included,
\* is unsafe.
C20_SafeCodeIffThreeConditions ==
    (/\ last.op = "_is_safe_code"
     /\ IsStr(last.request.code)) =>
        /\ last.result = PyBool(/\ ~HasDangerousSubstring(Chars(last.request.code.s))
                                /\ HasBenignMarker(Chars(last.request.code.s))
                                /\ ~HasControlFlowToken(Chars(last.request.code.s)))
        /\ last.result = PyBool(last.request.code.s \in HeuristicSafeCodes)
        /\ last.request.code.s = "" => last.result = PyFalse

C20_Witness ==
    /\ last.op = "_is_safe_code"
    /\ last.request.code = PyStr("print('information')")
    /\ last.result = PyFalse

\* the answer of the STRUCTURED path
PlaceholderDenial ==
    PyDict([approved |-> PyFalse, reason |-> PyStr("Confirmation required")])

\* a mapping none of whose values is True
DeniesEverything(v) == IsDict(v) /\ \A k \in DOMAIN v.d : v.d[k] # PyTrue

\* C15: request_structured_confirmation always returns a mapping and never
\* an approval: every call returns the placeholder denial {"approved":
\* false, "reason": "Confirmation required"} of the STRUCTURED path, and a
\* gate result of None, False or an empty mapping is normalized to
\* {"confirmed": false}.
C15_StructuredNeverApproves ==
    /\ last.op = "request_structured_confirmation" =>
           /\ last.request.confirmation_type = STRUCTURED_TYPE
           /\ last.result = PlaceholderDenial
           /\ DeniesEverything(last.result)
           /\ last.result \notin ApprovingValues
    /\ \A empty \in {PyNone, PyFalse, EmptyDict} :
           normalize_structured_result(empty) = PyDict([confirmed |-> PyFalse])
    /\ \A answer \in {PlaceholderDenial, PyDict([confirmed |-> PyFalse])} :
           normalize_structured_result(answer) = answer

C15_Witness ==
    /\ last.op = "request_structured_confirmation"
    /\ last.request.tool_name = "FileSystemTool"
    /\ last.request.parameters = SafePathParameters
    /\ last.result = PlaceholderDenial
    /\ Op1 \in DOMAIN pending_requests

(***************************************************************************)
(* Callbacks.                                                              *)
(***************************************************************************)
\* the last step was before_agent_callback with a str user_input
AgentCallWithText(call) ==
    call.op = "before_agent_callback" /\ IsStr(call.request.user_input)

\* some forbidden keyword is a substring of the lower-cased text
HasKeywordIn(lowered) ==
    \E i \in DOMAIN FORBIDDEN_KEYWORDS : Contains(lowered, Chars(FORBIDDEN_KEYWORDS[i]))

\* the text holds a forbidden keyword as a case-insensitive substring
HasForbiddenKeyword(text) == HasKeywordIn(Lower(Chars(text)))

\* the characters are white space only, or there are none
AllWhiteSpace(chars) == \A i \in 1..Len(chars) : chars[i] \in {" ", "\t", "\n", "\r"}

\* the text is empty or white space only
BlankText(text) == AllWhiteSpace(Chars(text))

\* the text has at most 10000 characters
WithinRequestLength(text) == Len(Chars(text)) <= 10000

\* the blocking response to an empty input
IsEmptyInputResponse(result) ==
    result # PyNone /\ result.py = "Content" /\ result.text = "Error: Empty input provided"

\* the blocking response to an over-long input
IsTooLongResponse(result) ==
    result # PyNone /\ result.py = "Content"
    /\ result.text = "Error: Input too long (max 10000 characters)"

\* a blocking response that reports a security policy violation
IsSecurityViolationResponse(result) ==
    /\ result # PyNone
    /\ result.py = "Content"
    /\ \E i \in DOMAIN FORBIDDEN_KEYWORDS :
           result.text = "Security policy violation: Contains forbidden keyword: " \o FORBIDDEN_KEYWORDS[i]

\* the counter security_violations of a state mapping, 0 when absent
ViolationsIn(s) == IF "security_violations" \in DOMAIN s THEN s["security_violations"].n ELSE 0

\* the agent runs exactly on an acceptable text, and a blank text is refused
\* as empty
AgentRunsIffAcceptable(result, blank, within, keyword) ==
    /\ result = PyNone <=> (~blank /\ within /\ ~keyword)
    /\ blank => IsEmptyInputResponse(result)

\* the call as C17 states it, for a text that is blank, within the length
\* and holding a keyword as the three flags say, and the counter going from
\* before (in the context the call was given) to after (in the state it
\* left)
AgentCallAsStated(result, before, after, blank, within, keyword) ==
    /\ AgentRunsIffAcceptable(result, blank, within, keyword)
    /\ keyword => (IsSecurityViolationResponse(result) /\ after = before + 1)

\* the call with the keyword clause kept to texts within the length, and
\* the over-long texts answered as too long with the counter left alone
AgentCallWithinLength(result, before, after, blank, within, keyword) ==
    /\ AgentRunsIffAcceptable(result, blank, within, keyword)
    /\ (keyword /\ within) => (IsSecurityViolationResponse(result) /\ after = before + 1)
    /\ (~blank /\ ~within) => (IsTooLongResponse(result) /\ after = before)

C16_GateConsultedBeforeTool ==
    (last.op = "before_tool_callback" /\ last.result = PyNone)
        => "request_confirmation" \in last.consulted

\* C18: before_tool_callback given empty tool_args returns a mapping with
\* an "error" key, and returns None only for valid arguments
C18_EmptyArgsBlocked ==
    (last.op = "before_tool_callback" /\ last.request.tool_args = EmptyDict)
        => (IsDict(last.result) /\ "error" \in DOMAIN last.result.d)

(***************************************************************************)
(* The classifier's default and the registry's life cycle.                 *)
(***************************************************************************)
\* the tools the classifier has rules for
ClassifiedTools ==
    {"FileSystemTool", "CodeExecutorTool", "GitManagerTool", "DockerBuilderTool"}

\* the request matches no rule of the classifier: its operation type is not
\* one of the read-only four, and its tool is unknown or is FileSystemTool
\* with an operation other than delete and copy
MatchesNoSafeRule(request) ==
    /\ request.operation_type \notin {"read", "list", "get", "view"}
    /\ \/ request.tool_name \notin ClassifiedTools
       \/ /\ request.tool_name = "FileSystemTool"
          /\ request.operation_type \notin {"delete", "copy"}

C22_RequestAlwaysStored ==
    IsRequestCall(last) =>
        /\ last.operation_id \in DOMAIN pending_requests
        /\ pending_requests[last.operation_id] = last.request
        /\ last.request.operation_id = last.operation_id
        /\ \E c \in GateCalls :
               /\ last.request.tool_name = c.tool_name
               /\ last.request.operation_type = c.operation_type
               /\ last.request.parameters = c.parameters
        /\ last.request.confirmation_type \in ConfirmationType

\* a request whose classification raised and was denied is on record
C22_Witness ==
    /\ last.op = "request_confirmation"
    /\ last.request.confirmation_type = BOOLEAN_TYPE
    /\ last.request.requires_confirmation
    /\ last.request.parameters = PyDict([path |-> PyInt(5)])
    /\ last.raised = {"classifier"}
    /\ last.result = PyFalse
    /\ pending_requests[Op1] = last.request

\* C23: a CONDITIONAL request with requires_confirmation=true returns True
\* without consulting the classifier when the predicate registered under
\* its operation_id reports that confirmation is unnecessary; when no
\* predicate is registered, or the predicate reports that confirmation is
\* needed, the result is the BOOLEAN result for the same request
C23_ConditionalPredicateThenBoolean ==
    (/\ last.op = "request_confirmation"
     /\ last.request.confirmation_type = CONDITIONAL_TYPE
     /\ last.request.requires_confirmation) =>
        LET registered == last.operation_id \in DOMAIN confirmation_callbacks
        IN  /\ (registered /\ confirmation_callbacks[last.operation_id] = "not_needed") =>
                   /\ last.result = PyTrue
                   /\ "predicate" \in last.consulted
                   /\ "classifier" \notin last.consulted
            /\ (~registered \/ confirmation_callbacks[last.operation_id] = "needed") =>
                   /\ last.result = BooleanDecision(last.request)
                   /\ "classifier" \in last.consulted

\* a predicate waved through a deletion the classifier calls unsafe
C23_Witness ==
    /\ last.op = "request_confirmation"
    /\ last.request.confirmation_type = CONDITIONAL_TYPE
    /\ last.request.requires_confirmation
    /\ last.request.parameters = UnsafePathParameters
    /\ last.request.tool_name = "FileSystemTool"
    /\ Op1 \in DOMAIN confirmation_callbacks
    /\ confirmation_callbacks[Op1] = "not_needed"
    /\ last.consulted = {"predicate"}
    /\ last.result = PyTrue

\* the predicate registered under the operation id of the call reports that
\* confirmation is unnecessary
PredicateWaives(call) ==
    /\ call.request.confirmation_type = CONDITIONAL_TYPE
    /\ call.operation_id \in DOMAIN confirmation_callbacks
    /\ confirmation_callbacks[call.operation_id] = "not_needed"

\* C27: request_confirmation returns True only if requires_confirmation is
\* false, or is_safe_operation holds for the request, or the type is
\* CONDITIONAL and the predicate registered for the operation_id reported
\* that confirmation is unnecessary; an unsafe BOOLEAN request with
\* requires_confirmation=true is denied, whatever requests, registrations
\* and approving respond_to_confirmation calls came before
C27_ApprovalOnlyWhenJustified ==
    IsRequestCall(last) =>
        /\ last.result = PyTrue =>
               \/ ~last.request.requires_confirmation
               \/ _is_safe_operation(last.request) = PyTrue
               \/ PredicateWaives(last)
        /\ (/\ last.request.confirmation_type = BOOLEAN_TYPE
            /\ last.request.requires_confirmation
            /\ _is_safe_operation(last.request) # PyTrue) => last.result = PyFalse

\* an unsafe BOOLEAN request is denied although a waiving predicate and a
\* handler are registered under its id and an earlier request is pending
C27_Witness ==
    /\ last.op = "request_confirmation"
    /\ last.request.confirmation_type = BOOLEAN_TYPE
    /\ last.request.requires_confirmation
    /\ last.request.parameters = UnsafePathParameters
    /\ last.result = PyFalse
    /\ Op1 \in DOMAIN confirmation_callbacks
    /\ confirmation_callbacks[Op1] = "not_needed"
    /\ Op1 \in DOMAIN response_handlers
    /\ Cardinality(DOMAIN pending_requests) = 2

\* C25: pending entries never expire: an operation_id in pending_requests
\* is still there after any call, except a respond_to_confirmation for that
\* id that returns True and a clear_pending_confirmations
C25_PendingNeverExpires ==
    [][\A id \in DOMAIN pending_requests :
          id \notin DOMAIN pending_requests' =>
              \/ last'.op = "clear_pending_confirmations"
              \/ /\ last'.op = "respond_to_confirmation"
                 /\ last'.operation_id = id
                 /\ last'.result = PyTrue]_vars

\* an answered request is gone while a request under a generated id stays
C25_Witness ==
    /\ last.op = "respond_to_confirmation"
    /\ last.operation_id = Op1
    /\ last.result = PyTrue
    /\ Op1 \notin DOMAIN pending_requests
    /\ Cardinality(DOMAIN pending_requests) = 1
    /\ \A id \in DOMAIN pending_requests : pending_requests[id].requires_confirmation

\* C29: respond_to_confirmation and clear_pending_confirmations never
\* modify response_handlers or confirmation_callbacks; entries of the two
\* maps are only added or replaced, by set_response_handler and
\* set_confirmation_callback and under the id these are given, and are
\* never removed
C29_RegistrationsOutliveRequests ==
    [][/\ last'.op \in {"respond_to_confirmation", "clear_pending_confirmations"} =>
              /\ response_handlers' = response_handlers
              /\ confirmation_callbacks' = confirmation_callbacks
       /\ DOMAIN response_handlers \subseteq DOMAIN response_handlers'
       /\ DOMAIN confirmation_callbacks \subseteq DOMAIN confirmation_callbacks'
       /\ \A id \in DOMAIN response_handlers' :
              (id \notin DOMAIN response_handlers
               \/ response_handlers'[id] # response_handlers[id]) =>
                  (last'.op = "set_response_handler" /\ last'.operation_id = id)
       /\ \A id \in DOMAIN confirmation_callbacks' :
              (id \notin DOMAIN confirmation_callbacks
               \/ confirmation_callbacks'[id] # confirmation_callbacks[id]) =>
                  (last'.op = "set_confirmation_callback" /\ last'.operation_id = id)]_vars

\* the request was answered and its handler and predicate are registered
C29_Witness ==
    /\ last.op = "respond_to_confirmation"
    /\ last.result = PyTrue
    /\ Len(last.handler_calls) = 1
    /\ last.operation_id \notin DOMAIN pending_requests
    /\ last.operation_id \in DOMAIN response_handlers
    /\ last.operation_id \in DOMAIN confirmation_callbacks
    /\ pending_requests = <<>>

\* the value a request that requires confirmation is answered with is a
\* decision: a bool for BOOLEAN and CONDITIONAL, the placeholder mapping
\* for STRUCTURED, never None
IsFinalDecision(call) ==
    IF call.request.confirmation_type = STRUCTURED_TYPE
    THEN IsDict(call.result) /\ DOMAIN call.result.d # {}
    ELSE call.result \in {PyTrue, PyFalse}

\* C30: request_confirmation resolves immediately: every call returns its
\* final result in the same invocation (a decision when confirmation is
\* required, the default of the type when it is not) and leaves nothing
\* waiting; a later respond_to_confirmation, confirmed or not, removes at
\* most the pending entry of its operation_id and runs the handler, and
\* changes nothing else
C30_ResolvesImmediately ==
    [][/\ IsRequestCall(last') =>
              /\ last'.result # Raise
              /\ last'.request.requires_confirmation => IsFinalDecision(last')
              /\ ~last'.request.requires_confirmation =>
                     last'.result = _get_default_response(last'.request.confirmation_type)
              /\ last'.handler_calls = <<>>
       /\ last'.op = "respond_to_confirmation" =>
              /\ \/ pending_requests' = pending_requests
                 \/ pending_requests' = remove_pending(pending_requests, last'.operation_id)
              /\ response_handlers' = response_handlers
              /\ confirmation_callbacks' = confirmation_callbacks
              /\ state' = state
              /\ Len(last'.handler_calls) <= 1
              /\ last'.result \in {PyTrue, PyFalse}]_vars

\* a BOOLEAN request that was denied at once is later answered "confirmed":
\* the answer removes the entry and reaches nobody but the handler
C30_Witness ==
    /\ last.op = "respond_to_confirmation"
    /\ last.confirmed
    /\ last.result = PyTrue
    /\ last.request # PyNone
    /\ last.request.confirmation_type = BOOLEAN_TYPE
    /\ last.request.requires_confirmation
    /\ last.request.parameters = UnsafePathParameters
    /\ Len(last.handler_calls) = 1
    /\ last.handler_calls[1].confirmed
    /\ last.operation_id \notin DOMAIN pending_requests

(***************************************************************************)
(* Responses under the event loop.                                         *)
(***************************************************************************)
\* two callers answered the same pending request: the same operation_id,
\* found pending under the same count of stored requests
AnswerSameRequest(c1, c2) ==
    /\ c1 # c2
    /\ respond_tasks[c1].request # PyNone
    /\ respond_tasks[c2].request # PyNone
    /\ respond_tasks[c1].operation_id = respond_tasks[c2].operation_id
    /\ respond_tasks[c1].serial = respond_tasks[c2].serial

\* C28: any interleaving of two respond_to_confirmation calls, or of one
\* respond_to_confirmation and one clear_pending_confirmations, on the same
\* pending operation_id is safe: a handler that completes is invoked at
\* most once for that pending request, at most one respond call returns
\* True, and no call raises
C28_ConcurrentResponsesSafe ==
    /\ \A c \in DOMAIN respond_tasks : respond_tasks[c].result # Raise
    /\ \A c1, c2 \in DOMAIN respond_tasks :
           AnswerSameRequest(c1, c2) =>
               /\ ~(respond_tasks[c1].handler = "completes"
                    /\ respond_tasks[c2].handler = "completes")
               /\ ~(respond_tasks[c1].result = PyTrue /\ respond_tasks[c2].result = PyTrue)

\* C24: operation_id is unique among pending requests: every pending record
\* is stored under its own operation_id, and a request_confirmation that
\* reuses a pending operation_id replaces the earlier record: the number of
\* pending entries does not grow, and what is observed and answered under
\* the id from then on is the new request
C24_ReusedIdReplacesRecord ==
    [][/\ \A id \in DOMAIN pending_requests' : pending_requests'[id].operation_id = id
       /\ (IsRequestCall(last') /\ last'.operation_id \in DOMAIN pending_requests) =>
              /\ DOMAIN pending_requests' = DOMAIN pending_requests
              /\ pending_requests'[last'.operation_id] = last'.request
              /\ \A id \in DOMAIN pending_requests' \ {last'.operation_id} :
                     pending_requests'[id] = pending_requests[id]
              /\ get_pending_confirmations(pending_requests').result = pending_requests'
              /\ respond_until_await(pending_requests', response_handlers',
                                     last'.operation_id, TRUE, PyNone).request
                     = last'.request]_vars

\* a caller suspended in the handler still holds the request it read, and
\* the registry holds another one under the same id, stored by the last call
C24_Witness ==
    /\ last.op = "request_confirmation"
    /\ Cardinality(DOMAIN pending_requests) = 1
    /\ pending_requests[last.operation_id] = last.request
    /\ \E c \in DOMAIN respond_tasks :
           /\ respond_tasks[c].pc = "awaiting_handler"
           /\ respond_tasks[c].operation_id = last.operation_id
           /\ respond_tasks[c].request # PyNone
           /\ respond_tasks[c].request # last.request
           /\ respond_tasks[c].serial < stored

(***************************************************************************)
(* The code executor behind the policy and the gate.                       *)
(***************************************************************************)
IsExecuteCall(c) == c.op = "execute_python_code"

GateConsulted(c) == "gate" \in c.consulted

\* the code is a str of more than 200 characters
CodeLongerThan200(code) == IsStr(code) /\ Len(Chars(code.s)) > 200

\* the mapping returned says the execution was cancelled
IsCancelledResult(result) ==
    /\ IsDict(result)
    /\ {"success", "cancelled"} \subseteq DOMAIN result.d
    /\ result.d.success = PyFalse
    /\ result.d.cancelled = PyTrue

\* C26: execute_python_code consults the gate iff
\* should_require_confirmation("execute_code", ...) is true, that is iff the
\* code is longer than 200 characters; when the gate does not approve, the
\* result has success false and cancelled true and the subprocess is never
\* started; the code is executed only if no confirmation was required or
\* the gate returned approval
C26_GateGuardsExecution ==
    IsExecuteCall(last) =>
        /\ GateConsulted(last) <=>
               should_require_confirmation("execute_code",
                   PyDict([code |-> last.request.code, language |-> PyStr("python"),
                           timeout |-> timeout_or_default(last.request.timeout)])) = PyTrue
        /\ GateConsulted(last) <=> CodeLongerThan200(last.request.code)
        /\ (GateConsulted(last) /\ last.confirmed # PyTrue) =>
               (IsCancelledResult(last.result) /\ ~last.spawned)
        /\ last.spawned => (~GateConsulted(last) \/ last.confirmed = PyTrue)

\* 201 characters that the classifier refuses: the gate was asked, the
\* call was cancelled, and an interpreter that would have exited with 0
\* was never started
C26_Witness ==
    /\ IsExecuteCall(last)
    /\ last.request.code = PyStr(Filler(201))
    /\ last.request.outcome = Exited(0, "", "")
    /\ GateConsulted(last)
    /\ last.confirmed = PyFalse
    /\ last.result = execution_cancelled
    /\ ~last.spawned
    /\ "temp:last_execution" \notin DOMAIN state

====
